---- MODULE Spec2Model ----
(***************************************************************************)
(* The dual-cycle reward node: main_node_runner.py (the scheduler loop),   *)
(* CORE_SYSTEMS (stamping engine, consensus manager), TOKEN_1_SNIFFEE      *)
(* (Cycle A: seed match) and TOKEN_2_BTZCY (Cycle B: traffic volume).      *)
(*                                                                         *)
(* Reading of the source.  The modules name each other loosely: a call     *)
(* site and its callee often disagree on a class, method, key or           *)
(* parameter name.  Each call is bound to the callee its call site         *)
(* evidently names, and a keyword argument to the field of that name:      *)
(*   - stamp_new_block(chain=, complexity=, reward_data=) stamps on the    *)
(*     chain and with the complexity the call passes, and takes the        *)
(*     winner, amount and seedframe from reward_data; a key reward_data    *)
(*     does not carry is an absent value (NoRewardType, 0);                *)
(*   - ConsensusManager calls SDBRewardLogic.run_sdb_consensus and         *)
(*     BTZRewardLogic.run_btz_consensus (itself calling                    *)
(*     _determine_highest_traffic_winner), and reads "packet_count" from   *)
(*     the logic's "binary_transit_no".                                    *)
(* The statements themselves are taken as written: what a function does    *)
(* not do (append, persist, refresh) the model does not do either.         *)
(*                                                                         *)
(* Clock: time.time() is read once per tick, in whole seconds; a tick      *)
(* takes no time, sleeping does.  A function explored on its own reads the *)
(* clock in milliseconds.  Difficulty is counted in units of the increment *)
(* 0.0000001.                                                              *)
(***************************************************************************)
EXTENDS Integers, Sequences, FiniteSets, TLC

\* ------------------------------------------------------------- bounds
\* The clock stops the model at MaxTime seconds.
MaxTime == 3900
\* At most MaxStamps blocks are stamped in a run (genesis included).
MaxStamps == 3
\* The consensus manager's roster, cut to its first MaxNodes addresses.
MaxNodes == 2
\* Hex digests are modelled by their first HashLen characters.
HashLen == 6
\* The clock's reading when the node is constructed.
Epoch == 1000
\* Seconds between construction and the call of run_node.
StartDelay == 1
\* At most MaxFailures passes of the loop end in the except clause.
MaxFailures == 1
\* A function explored on its own reads the clock within MaxSeconds seconds
\* of Epoch.
MaxSeconds == 4

\* -------------------------------------------------- program constants
\* main_node_runner.py: 0.0000001, in units of the increment.
INITIAL_COMPLEXITY == 1
COMPLEXITY_GROWTH_INCREMENT == 1
\* BlockStampingEngine(chain=List, complexity=0.1): 0.1 in the same units.
ENGINE_COMPLEXITY == 1000000
SDB_REWARD_CYCLE == 1800
BTZ_REWARD_CYCLE == 300
\* SDBRewardLogic / BTZRewardLogic class constants.
SDB_CYCLE_TIME_SECONDS == 1800
BTZ_CYCLE_TIME_SECONDS == 300
MATCH_DIFFICULTY_LENGTH == 5
SDB_REWARD_AMOUNT == 300
BTZ_REWARD_AMOUNT == 150
\* ConsensusManager(sdb_reward=1500, btz_reward=150)
SDB_REWARD == 1500
BTZ_REWARD == 150
\* SecurityHasher.placeholder_hash: "0" * 64
PLACEHOLDER_LENGTH == 64
\* run_node's except clause: time.sleep(10)
FAILURE_BACKOFF == 10
\* _generate_proof_of_verification_work: if nonce > 10000
NONCE_CUTOFF == 10000

\* A value the call does not supply.
NoRewardType == "NONE"

\* -------------------------------------------------------------- rosters
\* WalletAddressHandler._load_initial_nodes, in dict (insertion) order.
registered_nodes ==
    << "0xBTCZCY_ETHICAL_COMPUTATION_ADDRESS_7E3F",
       "0xSNIF_HIGH_VALUE_NODE_A1B2",
       "0xPACKET_LOAD_MASTER_C3D4",
       "0xCONSTELLATION_MINER_X9Y0",
       "0xHIGH_IO_FLOW_NODE_F5G6",
       "0xRANDOM_SEED_MATCH_H7I8" >>

get_all_active_addresses == registered_nodes

\* ConsensusManager._get_active_nodes: its own fixed list.
ManagerNodes ==
    << "0xBTCZCY_ETHICAL_COMPUTATION_ADDRESS_7E3F",
       "0xSNIF_HIGH_VALUE_NODE_A1B2",
       "0xPACKET_LOAD_MASTER_C3D4",
       "0xCONSTELLATION_MINER_X9Y0" >>

Min(a, b) == IF a <= b THEN a ELSE b

_get_active_nodes == SubSeq(ManagerNodes, 1, Min(MaxNodes, Len(ManagerNodes)))

\* ------------------------------------------------------------- strings
\* Python's s[:n] and s.startswith(p) on character sequences.
Prefix(s, n) == SubSeq(s, 1, Min(n, Len(s)))

StartsWith(s, p) == Len(p) <= Len(s) /\ SubSeq(s, 1, Len(p)) = p

\* Sample digests: "aaaaaa" and each string that differs from it in exactly
\* one position k (k = HashLen lies beyond the 5-character match prefix).
Flip(k) == [i \in 1..HashLen |-> IF i = k THEN "b" ELSE "a"]

SampleHashes == {Flip(k) : k \in 0..HashLen}

\* ------------------------------------------------------ SecurityHasher
\* "0" * 64
placeholder_hash == [i \in 1..PLACEHOLDER_LENGTH |-> "0"]

\* hashlib.sha256(data).hexdigest(): a digest that names what it digests
\* (collision-free), never equal to the placeholder.
sha256_hash(data) == <<"sha256", data>>

\* Each character XORed with the key 42.
soft_encrypt(data) == <<"xor42", data>>

\* f"{hard_hash}-{complexity:.7f}-{reward_type}"
lock_seed(hard_hash, complexity, reward_type) ==
    <<hard_hash, complexity, reward_type>>

\* Variant: the generator seeded with the clock's reading unreduced.
random_factor_Unreduced(time_ms) == <<"getrandbits64", time_ms>>

\* random.seed(int(time.time() * 1000) % 10000); random.getrandbits(64):
\* the factor is a function of the clock's reading, in milliseconds.
random_factor(time_ms) == <<"getrandbits64", time_ms % 10000>>

\* The shared generator (the module-level `random`) after the two
\* statements: seeded with the reduced reading, one draw made.
random_state_after(rng_state, time_ms) == [seed |-> time_ms % 10000, drawn |-> 1]

\* sha512(sha512(seed) + random_factor)
_fictional_sha4091_logic(seed, time_ms) ==
    <<"sha512", <<"sha512", seed>>, random_factor(time_ms)>>

constellation_lock_key(hard_hash, complexity, reward_type, time_ms) ==
    <<"CONSTELLATION_LOCK:",
      _fictional_sha4091_logic(lock_seed(hard_hash, complexity, reward_type),
                               time_ms)>>

\* Variant: the fallback predecessor one index lower.
_get_last_block_IndexBelow(chain) ==
    IF chain = <<>>
    THEN [HARDCOVER_CRYPTION |-> placeholder_hash, BLOCK_INDEX |-> 0 - 1]
    ELSE chain[Len(chain)]

\* ------------------------------------------------- BlockStampingEngine
_get_last_block(chain) ==
    IF chain = <<>>
    THEN [HARDCOVER_CRYPTION |-> placeholder_hash, BLOCK_INDEX |-> 0]
    ELSE chain[Len(chain)]

_prepare_block_data(index, previous_hash, miner_address, reward_type, reward_amount, binary_transit_no, seedframe, complexity, timestamp_s) ==
    [ BLOCK_INDEX       |-> index,
      TIME              |-> <<"ctime", timestamp_s>>,
      TIMESTAMP         |-> timestamp_s,
      PREVIOUS_HASH     |-> previous_hash,
      COMPLEXITY_LEVEL  |-> complexity,
      WINNERS_ADDRESSES |-> miner_address,
      REWARD_CHAIN      |-> reward_type,
      REWARD_AMOUNT     |-> reward_amount,
      SEEDFRAME         |-> seedframe,
      BINARY_TRANSIT_NO |-> binary_transit_no,
      SOFT_ENCRYPTER    |-> soft_encrypt(<<miner_address, reward_type>>) ]

\* Variant: the block serialised before its reward amount is set.
json_dumps_NoAmount(b) ==
    << <<"BINARY-TRANSIT-NO", b.BINARY_TRANSIT_NO>>,
       <<"BLOCK_INDEX", b.BLOCK_INDEX>>,
       <<"COMPLEXITY_LEVEL", b.COMPLEXITY_LEVEL>>,
       <<"PREVIOUS_HASH", b.PREVIOUS_HASH>>,
       <<"REWARD_CHAIN", b.REWARD_CHAIN>>,
       <<"SEEDFRAME", b.SEEDFRAME>>,
       <<"SOFT-ENCRYPTER", b.SOFT_ENCRYPTER>>,
       <<"TIME", b.TIME>>,
       <<"TIMESTAMP", b.TIMESTAMP>>,
       <<"WINNERS_ADDRESSES", b.WINNERS_ADDRESSES>> >>

\* json.dumps(new_block, sort_keys=True): the key/value pairs in key order.
json_dumps(b) ==
    << <<"BINARY-TRANSIT-NO", b.BINARY_TRANSIT_NO>>,
       <<"BLOCK_INDEX", b.BLOCK_INDEX>>,
       <<"COMPLEXITY_LEVEL", b.COMPLEXITY_LEVEL>>,
       <<"PREVIOUS_HASH", b.PREVIOUS_HASH>>,
       <<"REWARD_AMOUNT", b.REWARD_AMOUNT>>,
       <<"REWARD_CHAIN", b.REWARD_CHAIN>>,
       <<"SEEDFRAME", b.SEEDFRAME>>,
       <<"SOFT-ENCRYPTER", b.SOFT_ENCRYPTER>>,
       <<"TIME", b.TIME>>,
       <<"TIMESTAMP", b.TIMESTAMP>>,
       <<"WINNERS_ADDRESSES", b.WINNERS_ADDRESSES>> >>

\* The block stamped on `chain`; it is returned, not appended.
stamp_new_block(chain, complexity, miner_address, reward_type, reward_amount, binary_transit_no, seedframe, timestamp_s) ==
    LET last_block    == _get_last_block(chain)
        index         == last_block.BLOCK_INDEX + 1
        previous_hash == last_block.HARDCOVER_CRYPTION
        new_block     == _prepare_block_data(index, previous_hash,
                             miner_address, reward_type, reward_amount,
                             binary_transit_no, seedframe, complexity,
                             timestamp_s)
        hard_hash     == sha256_hash(json_dumps(new_block))
    IN  [ BLOCK_INDEX            |-> new_block.BLOCK_INDEX,
          TIME                   |-> new_block.TIME,
          TIMESTAMP              |-> new_block.TIMESTAMP,
          PREVIOUS_HASH          |-> new_block.PREVIOUS_HASH,
          COMPLEXITY_LEVEL       |-> new_block.COMPLEXITY_LEVEL,
          WINNERS_ADDRESSES      |-> new_block.WINNERS_ADDRESSES,
          REWARD_CHAIN           |-> new_block.REWARD_CHAIN,
          REWARD_AMOUNT          |-> new_block.REWARD_AMOUNT,
          SEEDFRAME              |-> new_block.SEEDFRAME,
          BINARY_TRANSIT_NO      |-> new_block.BINARY_TRANSIT_NO,
          SOFT_ENCRYPTER         |-> new_block.SOFT_ENCRYPTER,
          HARDCOVER_CRYPTION     |-> hard_hash,
          CONSTELLATION_SECURITY |->
              constellation_lock_key(hard_hash, complexity, reward_type,
                                     timestamp_s * 1000) ]

\* A call of stamp_new_block as its caller sees it: last_block["BLOCK_INDEX"]
\* and last_block["HARDCOVER_CRYPTION"] raise KeyError on a last block that
\* lacks the key; nothing else about the last block is looked at.
stamp_new_block_call(chain, complexity, miner_address, reward_type, reward_amount, binary_transit_no, seedframe, timestamp_s) ==
    LET last_block == _get_last_block(chain)
    IN  IF "BLOCK_INDEX" \notin DOMAIN last_block
        THEN [raised |-> "KeyError", key |-> "BLOCK_INDEX"]
        ELSE IF "HARDCOVER_CRYPTION" \notin DOMAIN last_block
        THEN [raised |-> "KeyError", key |-> "HARDCOVER_CRYPTION"]
        ELSE [returned |-> stamp_new_block(chain, complexity, miner_address,
                               reward_type, reward_amount, binary_transit_no,
                               seedframe, timestamp_s)]

\* ---------------------------------------------- ConceptualWifiAnalyzer
\* Packets a snapshot may hold in one direction (random.randint(100, 5000)).
PacketCounts == {100, 2500}

\* NodeTrafficSnapshot.total_packet_count
total_packet_count(packets_in, packets_out) == packets_in + packets_out

\* Packet totals a snapshot may report: both directions at either end.
PacketTotals == {total_packet_count(c, c) : c \in PacketCounts}

\* Proof hashes a snapshot may report (a SHA-256 of random traffic).
ProofHashes == {Flip(0), Flip(1)}

\* Cycle A reads the proofs and Cycle B the totals: the other value of an
\* evaluation's snapshots is sampled by one value.
AnyTotal == {total_packet_count(100, 100)}

AnyProof == {Flip(0)}

NodeData(address, proofs, totals) ==
    [ node_address       : {address},
      data_proof_hash    : proofs,
      total_packet_count : totals ]

\* aggregate_all_node_traffic: every list it may return for `nodes`, one
\* entry per address, in the order of `nodes`.
RECURSIVE TrafficLists(_, _, _, _)
TrafficLists(nodes, proofs, totals, k) ==
    IF k = 0 THEN {<<>>}
    ELSE { Append(d, x) : d \in TrafficLists(nodes, proofs, totals, k - 1),
                          x \in NodeData(nodes[k], proofs, totals) }

aggregate_all_node_traffic(nodes, proofs, totals) ==
    TrafficLists(nodes, proofs, totals, Len(nodes))

\* Python's None.
None == [node_address |-> "None"]

\* ----------------------------------------------------- SDBRewardLogic
RECURSIVE ScanForMatch(_, _, _)
ScanForMatch(eligible_nodes_data, match_prefix, i) ==
    IF i > Len(eligible_nodes_data) THEN None
    ELSE IF StartsWith(eligible_nodes_data[i].data_proof_hash, match_prefix)
         THEN eligible_nodes_data[i]
         ELSE ScanForMatch(eligible_nodes_data, match_prefix, i + 1)

\* Variant: the scan runs from the end of the list.
RECURSIVE ScanBackForMatch(_, _, _)
ScanBackForMatch(eligible_nodes_data, match_prefix, i) ==
    IF i < 1 THEN None
    ELSE IF StartsWith(eligible_nodes_data[i].data_proof_hash, match_prefix)
         THEN eligible_nodes_data[i]
         ELSE ScanBackForMatch(eligible_nodes_data, match_prefix, i - 1)

_find_seed_match_winner_LastMatch(eligible_nodes_data, target_seed) ==
    ScanBackForMatch(eligible_nodes_data,
                     Prefix(target_seed, MATCH_DIFFICULTY_LENGTH),
                     Len(eligible_nodes_data))

_find_seed_match_winner(eligible_nodes_data, target_seed) ==
    ScanForMatch(eligible_nodes_data,
                 Prefix(target_seed, MATCH_DIFFICULTY_LENGTH), 1)

\* The logic's return value on a match (sdb_reward_logic.py, step 5).
SdbWinnerRecord(winner_data, target_seed) ==
    [ winner_address    |-> winner_data.node_address,
      reward_amount     |-> SDB_REWARD_AMOUNT,
      binary_transit_no |-> winner_data.total_packet_count,
      seedframe         |-> target_seed,
      reward_type       |-> "@SNIFFEE-DEBUGEE" ]

\* SDBRewardLogic.run_sdb_consensus without its timer update: the time
\* gate, the empty-roster check, the scan.  `data` is what the analyzer
\* returned for this evaluation.
SdbLogicResult(time_now, last_reward_time, all_active_nodes, data, target_seed) ==
    IF time_now - last_reward_time < SDB_CYCLE_TIME_SECONDS THEN None
    ELSE IF all_active_nodes = <<>> THEN None
    ELSE LET winner_data == _find_seed_match_winner(data, target_seed)
         IN  IF winner_data = None THEN None
             ELSE SdbWinnerRecord(winner_data, target_seed)

\* ------------------------------------------------------ PingNmapVerifier
Report(address) ==
    { [ address        |-> address,
        ping_status    |-> p,
        service_status |-> n,
        is_verified    |-> (p = "SUCCESS" /\ n = "RUNNING") ] :
        p \in {"SUCCESS", "FAILED"}, n \in {"RUNNING", "BLOCKED"} }

\* bulk_verify_nodes: every list of reports it may return for `nodes`.
RECURSIVE ReportLists(_, _)
ReportLists(nodes, k) ==
    IF k = 0 THEN {<<>>}
    ELSE { Append(v, r) : v \in ReportLists(nodes, k - 1), r \in Report(nodes[k]) }

bulk_verify_nodes(nodes) == ReportLists(nodes, Len(nodes))

\* ------------------------------------------------------ BTZRewardLogic
\* next((r for r in verified_reports if r['address'] == address), None)
RECURSIVE FirstReport(_, _, _)
FirstReport(verified_reports, address, i) ==
    IF i > Len(verified_reports) THEN None
    ELSE IF verified_reports[i].address = address THEN verified_reports[i]
         ELSE FirstReport(verified_reports, address, i + 1)

\* Variant: the join keeps every traffic entry, marked verified.
EligibleNodes_Unfiltered(raw_traffic_data, verified_reports, i) ==
    [ k \in 1..Len(raw_traffic_data) |->
        [ node_address       |-> raw_traffic_data[k].node_address,
          address            |-> raw_traffic_data[k].node_address,
          data_proof_hash    |-> raw_traffic_data[k].data_proof_hash,
          total_packet_count |-> raw_traffic_data[k].total_packet_count,
          is_verified        |-> TRUE ] ]

\* The join of step 2: the traffic entries whose report is verified.
RECURSIVE EligibleNodes(_, _, _)
EligibleNodes(raw_traffic_data, verified_reports, i) ==
    IF i > Len(raw_traffic_data) THEN <<>>
    ELSE LET traffic == raw_traffic_data[i]
             report  == FirstReport(verified_reports, traffic.node_address, 1)
             rest    == EligibleNodes(raw_traffic_data, verified_reports, i + 1)
         IN  IF report # None /\ report.is_verified
             THEN << [ node_address       |-> traffic.node_address,
                       address            |-> traffic.node_address,
                       data_proof_hash    |-> traffic.data_proof_hash,
                       total_packet_count |-> traffic.total_packet_count,
                       is_verified        |-> report.is_verified ] >> \o rest
             ELSE rest

\* Variant: a sort that puts an entry before the entries of equal count.
RECURSIVE InsertDesc_Unstable(_, _)
InsertDesc_Unstable(sorted, x) ==
    IF sorted = <<>> THEN <<x>>
    ELSE IF Head(sorted).total_packet_count > x.total_packet_count
         THEN <<Head(sorted)>> \o InsertDesc_Unstable(Tail(sorted), x)
         ELSE <<x>> \o sorted

\* sorted(..., key=total_packet_count, reverse=True): stable, so entries of
\* equal count keep their order.  Insert x after every entry >= x.
RECURSIVE InsertDesc(_, _)
InsertDesc(sorted, x) ==
    IF sorted = <<>> THEN <<x>>
    ELSE IF Head(sorted).total_packet_count >= x.total_packet_count
         THEN <<Head(sorted)>> \o InsertDesc(Tail(sorted), x)
         ELSE <<x>> \o sorted

RECURSIVE SortedDesc(_, _)
SortedDesc(data, i) ==
    IF i = 0 THEN <<>> ELSE InsertDesc(SortedDesc(data, i - 1), data[i])

\* Variant: the last entry of the sorted list is taken.
_determine_highest_traffic_winner_Last(verified_traffic_data) ==
    IF verified_traffic_data = <<>> THEN None
    ELSE LET sorted_nodes == SortedDesc(verified_traffic_data, Len(verified_traffic_data))
             winner       == sorted_nodes[Len(sorted_nodes)]
         IN  IF ~winner.is_verified THEN None ELSE winner

_determine_highest_traffic_winner(verified_traffic_data) ==
    IF verified_traffic_data = <<>> THEN None
    ELSE LET sorted_nodes == SortedDesc(verified_traffic_data, Len(verified_traffic_data))
             winner       == sorted_nodes[1]
         IN  IF ~winner.is_verified THEN None ELSE winner

\* Variant: the reading rounded up to whole seconds.
int_seconds_Ceil(time_ms) == (time_ms + 999) \div 1000

\* int(t) of a clock reading t given in milliseconds: its whole seconds.
int_seconds(time_ms) == time_ms \div 1000

\* Variant: the expiry one interval before the reading.
_create_ethical_choice_challenge_Past(winner_address, packet_count, time_ms) ==
    [ challenge_id     |-> sha256_hash(<<winner_address, packet_count, time_ms>>),
      expiry_timestamp |-> int_seconds(time_ms) - BTZ_CYCLE_TIME_SECONDS,
      reward_status    |-> "PENDING_ACCEPTANCE" ]

\* time.time() is a float: the reading is passed in milliseconds.  The id
\* hashes the reading, the expiry is counted from its whole seconds.
_create_ethical_choice_challenge(winner_address, packet_count, time_ms) ==
    [ challenge_id     |-> sha256_hash(<<winner_address, packet_count, time_ms>>),
      expiry_timestamp |-> int_seconds(time_ms) + BTZ_CYCLE_TIME_SECONDS,
      reward_status    |-> "PENDING_ACCEPTANCE" ]

\* BTZRewardLogic.run_btz_consensus without its timer update.
BtzLogicResult(time_now, last_reward_time, all_active_nodes, data, reports) ==
    IF time_now - last_reward_time < BTZ_CYCLE_TIME_SECONDS THEN None
    ELSE IF all_active_nodes = <<>> THEN None
    ELSE LET eligible_nodes == EligibleNodes(data, reports, 1)
             winner_data    == _determine_highest_traffic_winner(eligible_nodes)
         IN  IF winner_data = None THEN None
             ELSE LET challenge == _create_ethical_choice_challenge(
                                       winner_data.address,
                                       winner_data.total_packet_count,
                                       time_now * 1000)
                  IN [ winner_address    |-> winner_data.address,
                       reward_amount     |-> BTZ_REWARD_AMOUNT,
                       binary_transit_no |-> winner_data.total_packet_count,
                       seedframe         |-> challenge.challenge_id,
                       reward_type       |-> "BTZCY-SYSTEM",
                       ethical_challenge |-> challenge ]

\* ---------------------------------------------------- ConsensusManager
\* What the manager hands on of the logic's record: the winner, its own
\* reward amount and the seedframe (and the packet count for BTZ).
ManagerSdbRecord(winner_data) ==
    [ winner_address |-> winner_data.winner_address,
      reward_amount  |-> SDB_REWARD,
      seedframe      |-> winner_data.seedframe ]

ManagerBtzRecord(winner_data) ==
    [ winner_address |-> winner_data.winner_address,
      reward_amount  |-> BTZ_REWARD,
      packet_count   |-> winner_data.binary_transit_no,
      seedframe      |-> winner_data.seedframe ]

\* ================================================================ state
VARIABLES
    now,                  \* time.time(), in seconds
    pc,                   \* where run_node stands
    blockchain,           \* BlockchainNodeRunner.blockchain
    current_complexity,   \* BlockchainNodeRunner.current_complexity
    last_sdb_reward_time, \* BlockchainNodeRunner.last_sdb_reward_time
    last_btz_reward_time, \* BlockchainNodeRunner.last_btz_reward_time
    current_time,         \* run_node's local: the tick's clock reading
    active_nodes,         \* run_node's local: the tick's roster
    sdb_last_reward_time, \* SDBRewardLogic.last_reward_time
    btz_last_reward_time, \* BTZRewardLogic.last_reward_time
    target_seed,          \* the SeedFrame's target_seed_transaction
    seed_timestamp,       \* the SeedFrame's seed_timestamp
    json_log,             \* blockchain_audit_log.json: the chain last dumped
    csv_ledger,           \* blockchain_ledger.csv: the rows written
    stamped,              \* history: every block stamp_new_block returned
    fn_in,                \* input of the function under evaluation
    fn_out,               \* its result
    failed_ticks,         \* history: passes of the loop that ended in the except clause
    challenges            \* history: every challenge run_btz_consensus created

vars == << now, pc, blockchain, current_complexity, last_sdb_reward_time,
           last_btz_reward_time, current_time, active_nodes,
           sdb_last_reward_time, btz_last_reward_time, target_seed, seed_timestamp,
           json_log, csv_ledger, stamped, fn_in, fn_out, failed_ticks, challenges >>

nodeVarsButPc == << now, blockchain, current_complexity, last_sdb_reward_time,
                    last_btz_reward_time, current_time, active_nodes,
                    sdb_last_reward_time, btz_last_reward_time, target_seed, seed_timestamp,
                    json_log, csv_ledger, stamped, failed_ticks, challenges >>

nodeVars == << now, pc, blockchain, current_complexity, last_sdb_reward_time,
               last_btz_reward_time, current_time, active_nodes,
               sdb_last_reward_time, btz_last_reward_time, target_seed, seed_timestamp,
               json_log, csv_ledger, stamped, failed_ticks, challenges >>

\* Seconds one pass of the loop may take: time.sleep(1) and the pass
\* itself, sampled below and at the shorter cycle's length.
SleepSeconds == {BTZ_REWARD_CYCLE \div 2, BTZ_REWARD_CYCLE}

\* Targets the seed generator may have drawn at construction.
TargetSeeds == {Flip(0)}

Idle == [node_address |-> "idle"]

\* BlockchainNodeRunner.__init__ and the constructors it runs.
Init ==
    /\ now = Epoch
    /\ pc = "start"
    /\ blockchain = <<>>
    /\ current_complexity = INITIAL_COMPLEXITY
    /\ last_sdb_reward_time = 0
    /\ last_btz_reward_time = 0
    /\ current_time = 0
    /\ active_nodes = <<>>
    /\ sdb_last_reward_time = now
    /\ btz_last_reward_time = now
    /\ target_seed \in TargetSeeds
    /\ seed_timestamp = now
    /\ json_log = <<>>
    /\ csv_ledger = <<>>
    /\ stamped = <<>>
    /\ fn_in = Idle
    /\ fn_out = Idle
    /\ failed_ticks = 0
    /\ challenges = <<>>

\* ------------------------------------------------------ DataLoggerOutput
\* The block's copy without the keys the ledger drops.
_flatten_block_data(block) ==
    [ BLOCK_INDEX            |-> block.BLOCK_INDEX,
      TIME                   |-> block.TIME,
      TIMESTAMP              |-> block.TIMESTAMP,
      PREVIOUS_HASH          |-> block.PREVIOUS_HASH,
      COMPLEXITY_LEVEL       |-> block.COMPLEXITY_LEVEL,
      WINNERS_ADDRESSES      |-> block.WINNERS_ADDRESSES,
      REWARD_CHAIN           |-> block.REWARD_CHAIN,
      REWARD_AMOUNT          |-> block.REWARD_AMOUNT,
      BINARY_TRANSIT_NO      |-> block.BINARY_TRANSIT_NO,
      HARDCOVER_CRYPTION     |-> block.HARDCOVER_CRYPTION,
      CONSTELLATION_SECURITY |-> block.CONSTELLATION_SECURITY,
      SDB_SEEDFRAME          |-> IF block.REWARD_CHAIN = "@SNIFFEE-DEBUGEE"
                                 THEN block.SEEDFRAME ELSE <<>> ]

\* json.dump(chain, f): the file holds the whole chain.
_log_to_json(chain) == chain

\* One row appended for the block.
_log_to_csv(ledger, block) == Append(ledger, _flatten_block_data(block))

\* Variant: the runner's chain restarted from the new block.
ChainAfterRewardStamp_Restart(chain, new_block) == <<new_block>>

\* run_node calls stamp_new_block for a winner and drops the block it
\* returns: the runner's chain after the call.
ChainAfterRewardStamp(chain, new_block) == chain

\* The record of a challenge run_btz_consensus created in this tick.
ChallengeEntry(winner_data) ==
    [ winner_address |-> winner_data.winner_address,
      created_at     |-> current_time,
      challenge      |-> winner_data.ethical_challenge ]

StampEntry(cycle, block) == [cycle |-> cycle, at |-> current_time, block |-> block]

\* The genesis stamp: stamp_new_block(miner_address=any), on the engine's
\* own (empty) chain and with the complexity the engine was built with.
GenesisBlock(timestamp_s) ==
    stamp_new_block(blockchain, ENGINE_COMPLEXITY, "any", NoRewardType, 0, 0, <<"0">>, timestamp_s)

\* run_node up to the loop: _create_genesis_block on an empty chain.
CreateGenesis ==
    /\ pc = "start"
    /\ blockchain = <<>>
    /\ now' = now + StartDelay
    /\ LET genesis_block == GenesisBlock(now')
       IN  /\ blockchain' = Append(blockchain, genesis_block)
           /\ stamped' = Append(stamped, [cycle |-> "GENESIS", at |-> now', block |-> genesis_block])
    /\ json_log' = _log_to_json(blockchain')
    /\ csv_ledger' = _log_to_csv(csv_ledger, blockchain'[Len(blockchain')])
    /\ last_sdb_reward_time' = now'
    /\ last_btz_reward_time' = now'
    /\ pc' = "tick"
    /\ UNCHANGED << current_complexity, current_time, active_nodes,
                    sdb_last_reward_time, btz_last_reward_time, target_seed, seed_timestamp,
                    fn_in, fn_out, failed_ticks, challenges >>

\* The top of the loop: the clock and the roster are read.
TickBegin ==
    /\ pc = "tick"
    /\ now <= Epoch + MaxTime
    /\ Len(stamped) < MaxStamps
    /\ current_time' = now
    /\ active_nodes' = get_all_active_addresses
    /\ pc' = "sdb"
    /\ UNCHANGED << now, blockchain, current_complexity, last_sdb_reward_time,
                    last_btz_reward_time, sdb_last_reward_time,
                    btz_last_reward_time, target_seed, seed_timestamp, json_log, csv_ledger, stamped, fn_in, fn_out, failed_ticks, challenges >>

\* current_time - self.last_sdb_reward_time >= SDB_REWARD_CYCLE
SdbDue == current_time - last_sdb_reward_time >= SDB_REWARD_CYCLE

\* current_time - self.last_btz_reward_time >= BTZ_REWARD_CYCLE
BtzDue == current_time - last_btz_reward_time >= BTZ_REWARD_CYCLE

\* The block run_node has stamped for a winner record: on the runner's
\* chain, with the runner's complexity.
RewardBlock(reward_data, binary_transit_no) ==
    stamp_new_block(blockchain, current_complexity, reward_data.winner_address, NoRewardType, reward_data.reward_amount, binary_transit_no, reward_data.seedframe, now)

\* Cycle A's interval has not elapsed.
SdbNotDue ==
    /\ pc = "sdb"
    /\ ~SdbDue
    /\ pc' = "btz"
    /\ UNCHANGED << now, blockchain, current_complexity, last_sdb_reward_time,
                    last_btz_reward_time, current_time, active_nodes,
                    sdb_last_reward_time, btz_last_reward_time, target_seed, seed_timestamp, json_log, csv_ledger,
                    stamped, fn_in, fn_out, failed_ticks, challenges >>

\* Variant: a Cycle A evaluation without winner ends the pass.
SdbNoWinner_SkipB ==
    /\ pc = "sdb"
    /\ SdbDue
    /\ \E data \in aggregate_all_node_traffic(_get_active_nodes, ProofHashes, AnyTotal) :
          SdbLogicResult(now, sdb_last_reward_time, _get_active_nodes, data, target_seed) = None
    /\ pc' = "sleep"
    /\ UNCHANGED << now, blockchain, current_complexity, last_sdb_reward_time,
                    last_btz_reward_time, current_time, active_nodes,
                    sdb_last_reward_time, btz_last_reward_time, target_seed, seed_timestamp, json_log, csv_ledger,
                    stamped, fn_in, fn_out, failed_ticks, challenges >>

\* Variant: an evaluation without winner resets the logic's timer.
SdbNoWinner_ResetsTimer ==
    /\ pc = "sdb"
    /\ SdbDue
    /\ \E data \in aggregate_all_node_traffic(_get_active_nodes, ProofHashes, AnyTotal) :
          SdbLogicResult(now, sdb_last_reward_time, _get_active_nodes, data, target_seed) = None
    /\ sdb_last_reward_time' = now
    /\ pc' = "btz"
    /\ UNCHANGED << now, blockchain, current_complexity, last_sdb_reward_time,
                    last_btz_reward_time, current_time, active_nodes,
                    btz_last_reward_time, target_seed, seed_timestamp, json_log, csv_ledger,
                    stamped, fn_in, fn_out, failed_ticks, challenges >>

\* Variant: an evaluation without winner resets the runner's timer.
SdbNoWinner_ResetsRunnerTimer ==
    /\ pc = "sdb"
    /\ SdbDue
    /\ \E data \in aggregate_all_node_traffic(_get_active_nodes, ProofHashes, AnyTotal) :
          SdbLogicResult(now, sdb_last_reward_time, _get_active_nodes, data, target_seed) = None
    /\ last_sdb_reward_time' = current_time
    /\ pc' = "btz"
    /\ UNCHANGED << now, blockchain, current_complexity,
                    last_btz_reward_time, current_time, active_nodes,
                    sdb_last_reward_time, btz_last_reward_time, target_seed, seed_timestamp, json_log, csv_ledger,
                    stamped, fn_in, fn_out, failed_ticks, challenges >>

\* Cycle A evaluated, no winner: nothing changes.
SdbNoWinner ==
    /\ pc = "sdb"
    /\ SdbDue
    /\ \E data \in aggregate_all_node_traffic(_get_active_nodes, ProofHashes, AnyTotal) :
          SdbLogicResult(now, sdb_last_reward_time, _get_active_nodes, data, target_seed) = None
    /\ pc' = "btz"
    /\ UNCHANGED << now, blockchain, current_complexity, last_sdb_reward_time,
                    last_btz_reward_time, current_time, active_nodes,
                    sdb_last_reward_time, btz_last_reward_time, target_seed, seed_timestamp, json_log, csv_ledger,
                    stamped, fn_in, fn_out, failed_ticks, challenges >>

\* Variant: the runner's Cycle A timer is left as it was.
SdbWin_NoTimerReset ==
    /\ pc = "sdb"
    /\ SdbDue
    /\ \E data \in aggregate_all_node_traffic(_get_active_nodes, ProofHashes, AnyTotal) :
          LET winner_data == SdbLogicResult(now, sdb_last_reward_time, _get_active_nodes, data, target_seed)
              new_block   == RewardBlock(ManagerSdbRecord(winner_data), 0)
          IN  /\ winner_data # None
              /\ blockchain' = ChainAfterRewardStamp(blockchain, new_block)
              /\ stamped' = Append(stamped, StampEntry("SDB", new_block))
    /\ sdb_last_reward_time' = now
    /\ current_complexity' = current_complexity + COMPLEXITY_GROWTH_INCREMENT
    /\ last_sdb_reward_time' = last_sdb_reward_time
    /\ pc' = "btz"
    /\ UNCHANGED << now, last_btz_reward_time, current_time,
                    active_nodes, btz_last_reward_time, target_seed, seed_timestamp, json_log, csv_ledger,
                    fn_in, fn_out, failed_ticks, challenges >>

\* Cycle A evaluated, a winner: the logic resets its timer, the runner
\* stamps a block (and drops it), grows the complexity, resets its timer.
SdbWin ==
    /\ pc = "sdb"
    /\ SdbDue
    /\ \E data \in aggregate_all_node_traffic(_get_active_nodes, ProofHashes, AnyTotal) :
          LET winner_data == SdbLogicResult(now, sdb_last_reward_time, _get_active_nodes, data, target_seed)
              new_block   == RewardBlock(ManagerSdbRecord(winner_data), 0)
          IN  /\ winner_data # None
              /\ blockchain' = ChainAfterRewardStamp(blockchain, new_block)
              /\ stamped' = Append(stamped, StampEntry("SDB", new_block))
    /\ sdb_last_reward_time' = now
    /\ current_complexity' = current_complexity + COMPLEXITY_GROWTH_INCREMENT
    /\ last_sdb_reward_time' = current_time
    /\ pc' = "btz"
    /\ UNCHANGED << now, last_btz_reward_time, current_time,
                    active_nodes, btz_last_reward_time, target_seed, seed_timestamp, json_log, csv_ledger,
                    fn_in, fn_out, failed_ticks, challenges >>

\* Cycle B's interval has not elapsed.
BtzNotDue ==
    /\ pc = "btz"
    /\ ~BtzDue
    /\ pc' = "sleep"
    /\ UNCHANGED << now, blockchain, current_complexity, last_sdb_reward_time,
                    last_btz_reward_time, current_time, active_nodes,
                    sdb_last_reward_time, btz_last_reward_time, target_seed, seed_timestamp, json_log, csv_ledger,
                    stamped, fn_in, fn_out, failed_ticks, challenges >>

\* Variant: an evaluation without winner resets Cycle B's timers.
BtzNoWinner_ResetsTimer ==
    /\ pc = "btz"
    /\ BtzDue
    /\ \E data \in aggregate_all_node_traffic(_get_active_nodes, AnyProof, PacketTotals), reports \in bulk_verify_nodes(_get_active_nodes) :
          BtzLogicResult(now, btz_last_reward_time, _get_active_nodes, data, reports) = None
    /\ btz_last_reward_time' = now
    /\ last_btz_reward_time' = current_time
    /\ pc' = "sleep"
    /\ UNCHANGED << now, blockchain, current_complexity, last_sdb_reward_time,
                    current_time, active_nodes,
                    sdb_last_reward_time, target_seed, seed_timestamp, json_log, csv_ledger,
                    stamped, fn_in, fn_out, failed_ticks, challenges >>

\* Cycle B evaluated, no winner: nothing changes.
BtzNoWinner ==
    /\ pc = "btz"
    /\ BtzDue
    /\ \E data \in aggregate_all_node_traffic(_get_active_nodes, AnyProof, PacketTotals), reports \in bulk_verify_nodes(_get_active_nodes) :
          BtzLogicResult(now, btz_last_reward_time, _get_active_nodes, data, reports) = None
    /\ pc' = "sleep"
    /\ UNCHANGED << now, blockchain, current_complexity, last_sdb_reward_time,
                    last_btz_reward_time, current_time, active_nodes,
                    sdb_last_reward_time, btz_last_reward_time, target_seed, seed_timestamp, json_log, csv_ledger,
                    stamped, fn_in, fn_out, failed_ticks, challenges >>

\* Variant: the winner's challenge is created and no block stamped.
BtzWin_NoStamp ==
    /\ pc = "btz"
    /\ BtzDue
    /\ \E data \in aggregate_all_node_traffic(_get_active_nodes, AnyProof, PacketTotals), reports \in bulk_verify_nodes(_get_active_nodes) :
          LET winner_data == BtzLogicResult(now, btz_last_reward_time, _get_active_nodes, data, reports)
              new_block   == RewardBlock(ManagerBtzRecord(winner_data), ManagerBtzRecord(winner_data).packet_count)
          IN  /\ winner_data # None
              /\ blockchain' = ChainAfterRewardStamp(blockchain, new_block)
              /\ stamped' = stamped
              /\ challenges' = Append(challenges, ChallengeEntry(winner_data))
    /\ btz_last_reward_time' = now
    /\ current_complexity' = current_complexity + COMPLEXITY_GROWTH_INCREMENT
    /\ last_btz_reward_time' = current_time
    /\ pc' = "sleep"
    /\ UNCHANGED << now, last_sdb_reward_time, current_time,
                    active_nodes, sdb_last_reward_time, target_seed, seed_timestamp, json_log, csv_ledger,
                    fn_in, fn_out, failed_ticks >>

\* Variant: the runner's Cycle B timer is left as it was.
BtzWin_NoTimerReset ==
    /\ pc = "btz"
    /\ BtzDue
    /\ \E data \in aggregate_all_node_traffic(_get_active_nodes, AnyProof, PacketTotals), reports \in bulk_verify_nodes(_get_active_nodes) :
          LET winner_data == BtzLogicResult(now, btz_last_reward_time, _get_active_nodes, data, reports)
              new_block   == RewardBlock(ManagerBtzRecord(winner_data), ManagerBtzRecord(winner_data).packet_count)
          IN  /\ winner_data # None
              /\ blockchain' = ChainAfterRewardStamp(blockchain, new_block)
              /\ stamped' = Append(stamped, StampEntry("BTZ", new_block))
              /\ challenges' = Append(challenges, ChallengeEntry(winner_data))
    /\ btz_last_reward_time' = now
    /\ current_complexity' = current_complexity + COMPLEXITY_GROWTH_INCREMENT
    /\ last_btz_reward_time' = last_btz_reward_time
    /\ pc' = "sleep"
    /\ UNCHANGED << now, last_sdb_reward_time, current_time,
                    active_nodes, sdb_last_reward_time, target_seed, seed_timestamp, json_log, csv_ledger,
                    fn_in, fn_out, failed_ticks >>

\* Cycle B evaluated, a winner: as Cycle A, with the packet count in the block.
BtzWin ==
    /\ pc = "btz"
    /\ BtzDue
    /\ \E data \in aggregate_all_node_traffic(_get_active_nodes, AnyProof, PacketTotals), reports \in bulk_verify_nodes(_get_active_nodes) :
          LET winner_data == BtzLogicResult(now, btz_last_reward_time, _get_active_nodes, data, reports)
              new_block   == RewardBlock(ManagerBtzRecord(winner_data), ManagerBtzRecord(winner_data).packet_count)
          IN  /\ winner_data # None
              /\ blockchain' = ChainAfterRewardStamp(blockchain, new_block)
              /\ stamped' = Append(stamped, StampEntry("BTZ", new_block))
              /\ challenges' = Append(challenges, ChallengeEntry(winner_data))
    /\ btz_last_reward_time' = now
    /\ current_complexity' = current_complexity + COMPLEXITY_GROWTH_INCREMENT
    /\ last_btz_reward_time' = current_time
    /\ pc' = "sleep"
    /\ UNCHANGED << now, last_sdb_reward_time, current_time,
                    active_nodes, sdb_last_reward_time, target_seed, seed_timestamp, json_log, csv_ledger,
                    fn_in, fn_out, failed_ticks >>

\* time.sleep(1), and back to the top of the loop.
Sleep ==
    /\ pc = "sleep"
    /\ \E d \in SleepSeconds : now' = now + d
    /\ pc' = "tick"
    /\ UNCHANGED << blockchain, current_complexity, last_sdb_reward_time,
                    last_btz_reward_time, current_time, active_nodes,
                    sdb_last_reward_time, btz_last_reward_time, target_seed, seed_timestamp, json_log, csv_ledger,
                    stamped, fn_in, fn_out, failed_ticks, challenges >>

\* Variant: the failed pass is the loop's last.
TickFailed_Halt ==
    /\ pc \in {"sdb", "btz"}
    /\ failed_ticks < MaxFailures
    /\ failed_ticks' = failed_ticks + 1
    /\ now' = now + FAILURE_BACKOFF
    /\ pc' = "halted"
    /\ UNCHANGED << blockchain, current_complexity, last_sdb_reward_time,
                    last_btz_reward_time, current_time, active_nodes,
                    sdb_last_reward_time, btz_last_reward_time, target_seed, seed_timestamp,
                    json_log, csv_ledger, stamped, fn_in, fn_out, challenges >>

\* An exception escapes the body of the try: the except clause prints it,
\* sleeps FAILURE_BACKOFF seconds, and the loop goes on. What the pass had
\* assigned before the exception stays assigned.
TickFailed ==
    /\ pc \in {"sdb", "btz"}
    /\ failed_ticks < MaxFailures
    /\ failed_ticks' = failed_ticks + 1
    /\ now' = now + FAILURE_BACKOFF
    /\ pc' = "tick"
    /\ UNCHANGED << blockchain, current_complexity, last_sdb_reward_time,
                    last_btz_reward_time, current_time, active_nodes,
                    sdb_last_reward_time, btz_last_reward_time, target_seed, seed_timestamp,
                    json_log, csv_ledger, stamped, fn_in, fn_out, challenges >>

Next ==
    \/ CreateGenesis
    \/ TickBegin
    \/ SdbNotDue
    \/ SdbNoWinner
    \/ SdbWin
    \/ BtzNotDue
    \/ BtzNoWinner
    \/ BtzWin
    \/ Sleep
    \/ TickFailed

Spec == Init /\ [][Next]_vars

\* The node as a running process: `while True` takes up its next pass.
FairSpec == Spec /\ WF_vars(TickBegin)

\* ===================================================== pure functions
\* The inputs of _find_seed_match_winner: the analyzer's data for a roster
\* of n addresses and a target seed.
SeedMatchInputs(n) ==
    { [ eligible_nodes_data |-> data, target_seed |-> target ] :
        data \in aggregate_all_node_traffic(SubSeq(ManagerNodes, 1, n), SampleHashes, AnyTotal),
        target \in SampleHashes }

SeedInit ==
    /\ now = Epoch
    /\ pc = "call"
    /\ blockchain = <<>>
    /\ current_complexity = INITIAL_COMPLEXITY
    /\ last_sdb_reward_time = 0
    /\ last_btz_reward_time = 0
    /\ current_time = 0
    /\ active_nodes = <<>>
    /\ sdb_last_reward_time = now
    /\ btz_last_reward_time = now
    /\ target_seed \in TargetSeeds
    /\ seed_timestamp = now
    /\ json_log = <<>>
    /\ csv_ledger = <<>>
    /\ stamped = <<>>
    /\ \E n \in 0..Min(MaxNodes + 1, Len(ManagerNodes)) : fn_in \in SeedMatchInputs(n)
    /\ fn_out = Idle
    /\ failed_ticks = 0
    /\ challenges = <<>>

\* One call of _find_seed_match_winner.
FindSeedMatchWinner ==
    /\ pc = "call"
    /\ fn_out' = _find_seed_match_winner(fn_in.eligible_nodes_data, fn_in.target_seed)
    /\ pc' = "returned"
    /\ UNCHANGED << nodeVarsButPc, fn_in >>

SeedNext == FindSeedMatchWinner

SeedSpec == SeedInit /\ [][SeedNext]_vars

\* Packet totals of the evaluations of run_btz_consensus explored on its
\* own: a low one and two that differ by one packet.
BtzTotals ==
    { total_packet_count(100, 100), total_packet_count(2499, 2500),
      total_packet_count(2500, 2500) }

\* The inputs of one evaluation of run_btz_consensus: a roster of n
\* addresses, what the analyzer and the verifier return for it, and the
\* clock, one second before the interval has elapsed or at it.
BtzInputs(n) ==
    { [ all_active_nodes |-> SubSeq(ManagerNodes, 1, n),
        data             |-> data,
        reports          |-> reports,
        last_reward_time |-> Epoch,
        time_now         |-> time_now ] :
        data \in aggregate_all_node_traffic(SubSeq(ManagerNodes, 1, n), AnyProof, BtzTotals),
        reports \in bulk_verify_nodes(SubSeq(ManagerNodes, 1, n)),
        time_now \in {Epoch + BTZ_CYCLE_TIME_SECONDS - 1, Epoch + BTZ_CYCLE_TIME_SECONDS} }

BtzInit ==
    /\ now = Epoch
    /\ pc = "call"
    /\ blockchain = <<>>
    /\ current_complexity = INITIAL_COMPLEXITY
    /\ last_sdb_reward_time = 0
    /\ last_btz_reward_time = 0
    /\ current_time = 0
    /\ active_nodes = <<>>
    /\ sdb_last_reward_time = now
    /\ btz_last_reward_time = now
    /\ target_seed \in TargetSeeds
    /\ seed_timestamp = now
    /\ json_log = <<>>
    /\ csv_ledger = <<>>
    /\ stamped = <<>>
    /\ \E n \in 0..Min(MaxNodes + 1, Len(ManagerNodes)) : fn_in \in BtzInputs(n)
    /\ fn_out = Idle
    /\ failed_ticks = 0
    /\ challenges = <<>>

\* One evaluation of run_btz_consensus, up to its return value.
RunBtzConsensus ==
    /\ pc = "call"
    /\ fn_out' = BtzLogicResult(fn_in.time_now, fn_in.last_reward_time, fn_in.all_active_nodes, fn_in.data, fn_in.reports)
    /\ pc' = "returned"
    /\ UNCHANGED << nodeVarsButPc, fn_in >>

BtzNext == RunBtzConsensus

BtzSpec == BtzInit /\ [][BtzNext]_vars

\* Milliseconds past the whole second at which the clock may be read.
SubSecond == {0, 1, 500, 999}

\* The inputs of _create_ethical_choice_challenge: the winner, its packet
\* total, and the reading of time.time(), in milliseconds.
ChallengeInputs ==
    { [ winner_address |-> ManagerNodes[a],
        packet_count   |-> packet_count,
        time_ms        |-> (Epoch + sec) * 1000 + ms ] :
        a \in 1..Len(ManagerNodes), packet_count \in BtzTotals,
        sec \in 0..MaxSeconds, ms \in SubSecond }

ChallengeInit ==
    /\ now = Epoch
    /\ pc = "call"
    /\ blockchain = <<>>
    /\ current_complexity = INITIAL_COMPLEXITY
    /\ last_sdb_reward_time = 0
    /\ last_btz_reward_time = 0
    /\ current_time = 0
    /\ active_nodes = <<>>
    /\ sdb_last_reward_time = now
    /\ btz_last_reward_time = now
    /\ target_seed \in TargetSeeds
    /\ seed_timestamp = now
    /\ json_log = <<>>
    /\ csv_ledger = <<>>
    /\ stamped = <<>>
    /\ fn_in \in ChallengeInputs
    /\ fn_out = Idle
    /\ failed_ticks = 0
    /\ challenges = <<>>

\* One call of _create_ethical_choice_challenge.
CreateChallenge ==
    /\ pc = "call"
    /\ fn_out' = _create_ethical_choice_challenge(fn_in.winner_address, fn_in.packet_count, fn_in.time_ms)
    /\ pc' = "returned"
    /\ UNCHANGED << nodeVarsButPc, fn_in >>

ChallengeNext == CreateChallenge

ChallengeSpec == ChallengeInit /\ [][ChallengeNext]_vars

\* The state of the node's components when a function is explored on its own.
CallInit(chain) ==
    /\ now = Epoch
    /\ pc = "call"
    /\ blockchain = chain
    /\ current_complexity = INITIAL_COMPLEXITY
    /\ last_sdb_reward_time = 0
    /\ last_btz_reward_time = 0
    /\ current_time = 0
    /\ active_nodes = <<>>
    /\ sdb_last_reward_time = now
    /\ btz_last_reward_time = now
    /\ target_seed \in TargetSeeds
    /\ seed_timestamp = now
    /\ json_log = <<>>
    /\ csv_ledger = <<>>
    /\ stamped = <<>>
    /\ fn_out = Idle
    /\ failed_ticks = 0
    /\ challenges = <<>>

\* A block as the engine stamps it first, on an empty chain.
FirstBlock == stamp_new_block(<<>>, ENGINE_COMPLEXITY, "any", NoRewardType, 0, 0, <<"0">>, Epoch)

\* The dict `block` without the key `key`.
WithoutKey(block, key) == [k \in DOMAIN block \ {key} |-> block[k]]

\* Last blocks the engine may be handed: a stamped block, the same with
\* another index or another digest, with a digest one character short or
\* not hexadecimal, and without its HARDCOVER_CRYPTION key.
LastBlocks ==
    { FirstBlock,
      [FirstBlock EXCEPT !.BLOCK_INDEX = 7],
      [FirstBlock EXCEPT !.HARDCOVER_CRYPTION = sha256_hash(<<"other">>)],
      [FirstBlock EXCEPT !.HARDCOVER_CRYPTION = [i \in 1..(PLACEHOLDER_LENGTH - 1) |-> "0"]],
      [FirstBlock EXCEPT !.HARDCOVER_CRYPTION = [i \in 1..PLACEHOLDER_LENGTH |-> "z"]],
      WithoutKey(FirstBlock, "HARDCOVER_CRYPTION") }

\* The inputs of stamp_new_block: the engine's chain and complexity, the
\* arguments of the call and the clock's reading.
StampInputs ==
    { [ chain             |-> chain,
        complexity        |-> complexity,
        miner_address     |-> miner_address,
        reward_type       |-> reward_type,
        reward_amount     |-> reward_amount,
        binary_transit_no |-> binary_transit_no,
        seedframe         |-> seedframe,
        timestamp_s       |-> timestamp_s ] :
        chain \in {<<>>} \cup {<<b>> : b \in LastBlocks},
        complexity \in {INITIAL_COMPLEXITY, INITIAL_COMPLEXITY + COMPLEXITY_GROWTH_INCREMENT},
        miner_address \in {ManagerNodes[1], ManagerNodes[2]},
        reward_type \in {NoRewardType, "BTZCY-SYSTEM"},
        reward_amount \in {SDB_REWARD, BTZ_REWARD},
        binary_transit_no \in {0, total_packet_count(100, 100)},
        seedframe \in {<<"0">>, Flip(0)},
        timestamp_s \in {Epoch, Epoch + 1} }

StampInit ==
    /\ fn_in \in StampInputs
    /\ CallInit(fn_in.chain)

\* One call of stamp_new_block on the engine's chain.
StampCall ==
    /\ pc = "call"
    /\ fn_out' = stamp_new_block_call(fn_in.chain, fn_in.complexity, fn_in.miner_address, fn_in.reward_type, fn_in.reward_amount, fn_in.binary_transit_no, fn_in.seedframe, fn_in.timestamp_s)
    /\ pc' = "returned"
    /\ UNCHANGED << nodeVarsButPc, fn_in >>

StampNext == StampCall

StampSpec == StampInit /\ [][StampNext]_vars

\* The inputs of constellation_lock_key: its arguments, the clock's reading
\* in milliseconds (two of them 10 s apart), and the state the shared
\* generator is in: as the interpreter seeded it (seed -1: from the
\* operating system, no clock reading), or seeded and drawn from before.
LockInputs ==
    { [ hard_hash   |-> hard_hash,
        complexity  |-> complexity,
        reward_type |-> reward_type,
        time_ms     |-> (Epoch + sec) * 1000 + ms,
        rng_state   |-> rng_state ] :
        hard_hash \in {sha256_hash(<<"a">>), sha256_hash(<<"b">>)},
        complexity \in {INITIAL_COMPLEXITY, INITIAL_COMPLEXITY + COMPLEXITY_GROWTH_INCREMENT},
        reward_type \in {"@SNIFFEE-DEBUGEE", "BTZCY-SYSTEM"},
        sec \in (0..MaxSeconds) \cup {10},
        ms \in SubSecond,
        rng_state \in { [seed |-> 0 - 1, drawn |-> 0], [seed |-> 7, drawn |-> 3] } }

LockInit ==
    /\ fn_in \in LockInputs
    /\ CallInit(<<>>)

\* One call of constellation_lock_key: the string returned and the shared
\* generator as the call leaves it.
LockCall ==
    /\ pc = "call"
    /\ fn_out' = [ result    |-> constellation_lock_key(fn_in.hard_hash, fn_in.complexity, fn_in.reward_type, fn_in.time_ms),
                   rng_state |-> random_state_after(fn_in.rng_state, fn_in.time_ms) ]
    /\ pc' = "returned"
    /\ UNCHANGED << nodeVarsButPc, fn_in >>

LockNext == LockCall

LockSpec == LockInit /\ [][LockNext]_vars

\* ------------------------------------------------- WalletAddressHandler
\* Challenge ids and simulated private keys the handler is called with (the
\* first of each from the module's own demonstration).
ChallengeIds == {"ETHICAL_CHOICE_12345", "ETHICAL_CHOICE_1", "ETHICAL_CHOICE_2"}

PrivateKeys == {"SIM_PRIV_KEY_7E3F", "SIM_PRIV_KEY_A1B2", "SIM_PRIV_KEY_C3D4"}

\* f"ACCEPTANCE-{challenge_id}-{accepting_address}"
acceptance_payload(challenge_id, accepting_address) ==
    <<"ACCEPTANCE-", challenge_id, "-", accepting_address>>

\* hashlib.sha256(payload.encode()).hexdigest()[:5], for the payload of a
\* challenge id and an address: the digests' first five characters, as
\* SHA-256 gives them.
payload_hash_prefix ==
       <<"ETHICAL_CHOICE_12345", "0xBTCZCY_ETHICAL_COMPUTATION_ADDRESS_7E3F">> :> "baea0" @@
       <<"ETHICAL_CHOICE_12345", "0xSNIF_HIGH_VALUE_NODE_A1B2">> :> "5b6ee" @@
       <<"ETHICAL_CHOICE_12345", "0xPACKET_LOAD_MASTER_C3D4">> :> "d93a6" @@
       <<"ETHICAL_CHOICE_12345", "0xCONSTELLATION_MINER_X9Y0">> :> "8dacc" @@
       <<"ETHICAL_CHOICE_12345", "0xHIGH_IO_FLOW_NODE_F5G6">> :> "c023e" @@
       <<"ETHICAL_CHOICE_12345", "0xRANDOM_SEED_MATCH_H7I8">> :> "bb676" @@
       <<"ETHICAL_CHOICE_1", "0xBTCZCY_ETHICAL_COMPUTATION_ADDRESS_7E3F">> :> "285c8" @@
       <<"ETHICAL_CHOICE_1", "0xSNIF_HIGH_VALUE_NODE_A1B2">> :> "98b52" @@
       <<"ETHICAL_CHOICE_1", "0xPACKET_LOAD_MASTER_C3D4">> :> "b3dd1" @@
       <<"ETHICAL_CHOICE_1", "0xCONSTELLATION_MINER_X9Y0">> :> "6af62" @@
       <<"ETHICAL_CHOICE_1", "0xHIGH_IO_FLOW_NODE_F5G6">> :> "3778d" @@
       <<"ETHICAL_CHOICE_1", "0xRANDOM_SEED_MATCH_H7I8">> :> "9488d" @@
       <<"ETHICAL_CHOICE_2", "0xBTCZCY_ETHICAL_COMPUTATION_ADDRESS_7E3F">> :> "34692" @@
       <<"ETHICAL_CHOICE_2", "0xSNIF_HIGH_VALUE_NODE_A1B2">> :> "06873" @@
       <<"ETHICAL_CHOICE_2", "0xPACKET_LOAD_MASTER_C3D4">> :> "6476e" @@
       <<"ETHICAL_CHOICE_2", "0xCONSTELLATION_MINER_X9Y0">> :> "1c440" @@
       <<"ETHICAL_CHOICE_2", "0xHIGH_IO_FLOW_NODE_F5G6">> :> "c1e23" @@
       <<"ETHICAL_CHOICE_2", "0xRANDOM_SEED_MATCH_H7I8">> :> "b574f"

\* hashlib.sha256(f"{payload}-{private_key_sim}".encode()).hexdigest()[:5],
\* likewise, for a challenge id, an address and a key.
signature_hash_prefix ==
       <<"ETHICAL_CHOICE_12345", "0xBTCZCY_ETHICAL_COMPUTATION_ADDRESS_7E3F", "SIM_PRIV_KEY_7E3F">> :> "7f962" @@
       <<"ETHICAL_CHOICE_12345", "0xBTCZCY_ETHICAL_COMPUTATION_ADDRESS_7E3F", "SIM_PRIV_KEY_A1B2">> :> "6a996" @@
       <<"ETHICAL_CHOICE_12345", "0xBTCZCY_ETHICAL_COMPUTATION_ADDRESS_7E3F", "SIM_PRIV_KEY_C3D4">> :> "95e86" @@
       <<"ETHICAL_CHOICE_12345", "0xSNIF_HIGH_VALUE_NODE_A1B2", "SIM_PRIV_KEY_7E3F">> :> "6817f" @@
       <<"ETHICAL_CHOICE_12345", "0xSNIF_HIGH_VALUE_NODE_A1B2", "SIM_PRIV_KEY_A1B2">> :> "1d7a3" @@
       <<"ETHICAL_CHOICE_12345", "0xSNIF_HIGH_VALUE_NODE_A1B2", "SIM_PRIV_KEY_C3D4">> :> "81929" @@
       <<"ETHICAL_CHOICE_12345", "0xPACKET_LOAD_MASTER_C3D4", "SIM_PRIV_KEY_7E3F">> :> "cc381" @@
       <<"ETHICAL_CHOICE_12345", "0xPACKET_LOAD_MASTER_C3D4", "SIM_PRIV_KEY_A1B2">> :> "cfb3d" @@
       <<"ETHICAL_CHOICE_12345", "0xPACKET_LOAD_MASTER_C3D4", "SIM_PRIV_KEY_C3D4">> :> "9f01f" @@
       <<"ETHICAL_CHOICE_12345", "0xCONSTELLATION_MINER_X9Y0", "SIM_PRIV_KEY_7E3F">> :> "8af8c" @@
       <<"ETHICAL_CHOICE_12345", "0xCONSTELLATION_MINER_X9Y0", "SIM_PRIV_KEY_A1B2">> :> "ffd51" @@
       <<"ETHICAL_CHOICE_12345", "0xCONSTELLATION_MINER_X9Y0", "SIM_PRIV_KEY_C3D4">> :> "4d8c9" @@
       <<"ETHICAL_CHOICE_12345", "0xHIGH_IO_FLOW_NODE_F5G6", "SIM_PRIV_KEY_7E3F">> :> "e52c3" @@
       <<"ETHICAL_CHOICE_12345", "0xHIGH_IO_FLOW_NODE_F5G6", "SIM_PRIV_KEY_A1B2">> :> "2478d" @@
       <<"ETHICAL_CHOICE_12345", "0xHIGH_IO_FLOW_NODE_F5G6", "SIM_PRIV_KEY_C3D4">> :> "7f344" @@
       <<"ETHICAL_CHOICE_12345", "0xRANDOM_SEED_MATCH_H7I8", "SIM_PRIV_KEY_7E3F">> :> "025e8" @@
       <<"ETHICAL_CHOICE_12345", "0xRANDOM_SEED_MATCH_H7I8", "SIM_PRIV_KEY_A1B2">> :> "303a5" @@
       <<"ETHICAL_CHOICE_12345", "0xRANDOM_SEED_MATCH_H7I8", "SIM_PRIV_KEY_C3D4">> :> "4eb5e" @@
       <<"ETHICAL_CHOICE_1", "0xBTCZCY_ETHICAL_COMPUTATION_ADDRESS_7E3F", "SIM_PRIV_KEY_7E3F">> :> "1553a" @@
       <<"ETHICAL_CHOICE_1", "0xBTCZCY_ETHICAL_COMPUTATION_ADDRESS_7E3F", "SIM_PRIV_KEY_A1B2">> :> "e4121" @@
       <<"ETHICAL_CHOICE_1", "0xBTCZCY_ETHICAL_COMPUTATION_ADDRESS_7E3F", "SIM_PRIV_KEY_C3D4">> :> "b24bd" @@
       <<"ETHICAL_CHOICE_1", "0xSNIF_HIGH_VALUE_NODE_A1B2", "SIM_PRIV_KEY_7E3F">> :> "e3c3a" @@
       <<"ETHICAL_CHOICE_1", "0xSNIF_HIGH_VALUE_NODE_A1B2", "SIM_PRIV_KEY_A1B2">> :> "e2013" @@
       <<"ETHICAL_CHOICE_1", "0xSNIF_HIGH_VALUE_NODE_A1B2", "SIM_PRIV_KEY_C3D4">> :> "3da5d" @@
       <<"ETHICAL_CHOICE_1", "0xPACKET_LOAD_MASTER_C3D4", "SIM_PRIV_KEY_7E3F">> :> "9b919" @@
       <<"ETHICAL_CHOICE_1", "0xPACKET_LOAD_MASTER_C3D4", "SIM_PRIV_KEY_A1B2">> :> "849c8" @@
       <<"ETHICAL_CHOICE_1", "0xPACKET_LOAD_MASTER_C3D4", "SIM_PRIV_KEY_C3D4">> :> "1247c" @@
       <<"ETHICAL_CHOICE_1", "0xCONSTELLATION_MINER_X9Y0", "SIM_PRIV_KEY_7E3F">> :> "09440" @@
       <<"ETHICAL_CHOICE_1", "0xCONSTELLATION_MINER_X9Y0", "SIM_PRIV_KEY_A1B2">> :> "36dfc" @@
       <<"ETHICAL_CHOICE_1", "0xCONSTELLATION_MINER_X9Y0", "SIM_PRIV_KEY_C3D4">> :> "4c5a6" @@
       <<"ETHICAL_CHOICE_1", "0xHIGH_IO_FLOW_NODE_F5G6", "SIM_PRIV_KEY_7E3F">> :> "01dda" @@
       <<"ETHICAL_CHOICE_1", "0xHIGH_IO_FLOW_NODE_F5G6", "SIM_PRIV_KEY_A1B2">> :> "726d5" @@
       <<"ETHICAL_CHOICE_1", "0xHIGH_IO_FLOW_NODE_F5G6", "SIM_PRIV_KEY_C3D4">> :> "35c90" @@
       <<"ETHICAL_CHOICE_1", "0xRANDOM_SEED_MATCH_H7I8", "SIM_PRIV_KEY_7E3F">> :> "3148e" @@
       <<"ETHICAL_CHOICE_1", "0xRANDOM_SEED_MATCH_H7I8", "SIM_PRIV_KEY_A1B2">> :> "4474f" @@
       <<"ETHICAL_CHOICE_1", "0xRANDOM_SEED_MATCH_H7I8", "SIM_PRIV_KEY_C3D4">> :> "37146" @@
       <<"ETHICAL_CHOICE_2", "0xBTCZCY_ETHICAL_COMPUTATION_ADDRESS_7E3F", "SIM_PRIV_KEY_7E3F">> :> "cc676" @@
       <<"ETHICAL_CHOICE_2", "0xBTCZCY_ETHICAL_COMPUTATION_ADDRESS_7E3F", "SIM_PRIV_KEY_A1B2">> :> "e660b" @@
       <<"ETHICAL_CHOICE_2", "0xBTCZCY_ETHICAL_COMPUTATION_ADDRESS_7E3F", "SIM_PRIV_KEY_C3D4">> :> "e86c5" @@
       <<"ETHICAL_CHOICE_2", "0xSNIF_HIGH_VALUE_NODE_A1B2", "SIM_PRIV_KEY_7E3F">> :> "8db0c" @@
       <<"ETHICAL_CHOICE_2", "0xSNIF_HIGH_VALUE_NODE_A1B2", "SIM_PRIV_KEY_A1B2">> :> "3000b" @@
       <<"ETHICAL_CHOICE_2", "0xSNIF_HIGH_VALUE_NODE_A1B2", "SIM_PRIV_KEY_C3D4">> :> "280e0" @@
       <<"ETHICAL_CHOICE_2", "0xPACKET_LOAD_MASTER_C3D4", "SIM_PRIV_KEY_7E3F">> :> "d411d" @@
       <<"ETHICAL_CHOICE_2", "0xPACKET_LOAD_MASTER_C3D4", "SIM_PRIV_KEY_A1B2">> :> "11223" @@
       <<"ETHICAL_CHOICE_2", "0xPACKET_LOAD_MASTER_C3D4", "SIM_PRIV_KEY_C3D4">> :> "df447" @@
       <<"ETHICAL_CHOICE_2", "0xCONSTELLATION_MINER_X9Y0", "SIM_PRIV_KEY_7E3F">> :> "8d19a" @@
       <<"ETHICAL_CHOICE_2", "0xCONSTELLATION_MINER_X9Y0", "SIM_PRIV_KEY_A1B2">> :> "6cc1d" @@
       <<"ETHICAL_CHOICE_2", "0xCONSTELLATION_MINER_X9Y0", "SIM_PRIV_KEY_C3D4">> :> "c0d04" @@
       <<"ETHICAL_CHOICE_2", "0xHIGH_IO_FLOW_NODE_F5G6", "SIM_PRIV_KEY_7E3F">> :> "b7971" @@
       <<"ETHICAL_CHOICE_2", "0xHIGH_IO_FLOW_NODE_F5G6", "SIM_PRIV_KEY_A1B2">> :> "e0fc6" @@
       <<"ETHICAL_CHOICE_2", "0xHIGH_IO_FLOW_NODE_F5G6", "SIM_PRIV_KEY_C3D4">> :> "b471f" @@
       <<"ETHICAL_CHOICE_2", "0xRANDOM_SEED_MATCH_H7I8", "SIM_PRIV_KEY_7E3F">> :> "a477a" @@
       <<"ETHICAL_CHOICE_2", "0xRANDOM_SEED_MATCH_H7I8", "SIM_PRIV_KEY_A1B2">> :> "14807" @@
       <<"ETHICAL_CHOICE_2", "0xRANDOM_SEED_MATCH_H7I8", "SIM_PRIV_KEY_C3D4">> :> "e7254"

\* f"{signature_hash[:5]}_{signature_hash}"
generate_reward_acceptance_signature(challenge_id, accepting_address, private_key_sim) ==
    << signature_hash_prefix[<<challenge_id, accepting_address, private_key_sim>>], "_",
       sha256_hash(<<acceptance_payload(challenge_id, accepting_address), "-", private_key_sim>>) >>

\* len(signature): five characters, the underscore, the 64 of the digest.
signature_length(signature) == 5 + 1 + 64

\* verify_address_signature for the payload of (challenge_id, address):
\* the address is registered, the signature starts with the payload
\* digest's first five characters and is longer than 10.
verify_address_signature(address, challenge_id, payload_address, signature) ==
    IF address \notin {registered_nodes[i] : i \in 1..Len(registered_nodes)}
    THEN FALSE
    ELSE /\ signature[1] = payload_hash_prefix[<<challenge_id, payload_address>>]
         /\ signature_length(signature) > 10

\* The inputs of the round trip of the module's demonstration.
SignInputs ==
    { [ challenge_id |-> c, address |-> registered_nodes[a], private_key_sim |-> k ] :
        c \in ChallengeIds, a \in 1..Len(registered_nodes), k \in PrivateKeys }

SignInit ==
    /\ fn_in \in SignInputs
    /\ CallInit(<<>>)

\* generate_reward_acceptance_signature is called.
SignAcceptance ==
    /\ pc = "call"
    /\ fn_out' = [acceptance_sig |-> generate_reward_acceptance_signature(fn_in.challenge_id, fn_in.address, fn_in.private_key_sim)]
    /\ pc' = "signed"
    /\ UNCHANGED << nodeVarsButPc, fn_in >>

\* verify_address_signature is called on the signature, against the
\* payload f"ACCEPTANCE-{challenge_id}-{address}".
VerifyAcceptance ==
    /\ pc = "signed"
    /\ fn_out' = [acceptance_sig      |-> fn_out.acceptance_sig,
                  verification_status |-> verify_address_signature(fn_in.address, fn_in.challenge_id, fn_in.address, fn_out.acceptance_sig)]
    /\ pc' = "returned"
    /\ UNCHANGED << nodeVarsButPc, fn_in >>

SignNext == SignAcceptance \/ VerifyAcceptance

SignSpec == SignInit /\ [][SignNext]_vars

\* -------------------------------------------- PingNmapVerifier, the search
\* Variant: the safety break one nonce late.
nonce_exceeded_Late(nonce) == nonce > NONCE_CUTOFF + 1

\* if nonce > 10000
nonce_exceeded(nonce) == nonce > NONCE_CUTOFF

\* hashlib.sha256(f"{raw_data}{nonce}").hexdigest()
attempt_hash(raw_data, nonce) == sha256_hash(<<raw_data, nonce>>)

\* The inputs of _generate_proof_of_verification_work: the raw data, and
\* with it the nonces at which the digest of raw data and nonce starts with
\* the difficulty target "000": none, the first, some, the last nonce
\* tried, the one before it, the one after it.
PowInputs ==
    { [ raw_data |-> raw_data, hits |-> hits ] :
        raw_data \in {<<"12.5", "13.1">>},
        hits \in { {}, {0}, {1, 5}, {NONCE_CUTOFF - 1}, {NONCE_CUTOFF}, {NONCE_CUTOFF + 1} } }

PowInit ==
    /\ fn_in \in PowInputs
    /\ CallInit(<<>>)

\* nonce = 0
PowBegin ==
    /\ pc = "call"
    /\ fn_out' = [nonce |-> 0, attempts |-> 0]
    /\ pc' = "loop"
    /\ UNCHANGED << nodeVarsButPc, fn_in >>

\* One pass of `while True`: the attempt is hashed; the digest is returned
\* if it meets the target; else the nonce is stepped and, past the cutoff,
\* the degraded token returned.
PowAttempt ==
    /\ pc = "loop"
    /\ LET hash_result == attempt_hash(fn_in.raw_data, fn_out.nonce)
       IN  IF fn_out.nonce \in fn_in.hits
           THEN /\ fn_out' = [nonce |-> fn_out.nonce, attempts |-> fn_out.attempts + 1, returned |-> hash_result]
                /\ pc' = "returned"
           ELSE IF nonce_exceeded(fn_out.nonce + 1)
           THEN /\ fn_out' = [nonce |-> fn_out.nonce + 1, attempts |-> fn_out.attempts + 1, returned |-> <<"NonceExceeded-", hash_result>>]
                /\ pc' = "returned"
           ELSE /\ fn_out' = [nonce |-> fn_out.nonce + 1, attempts |-> fn_out.attempts + 1]
                /\ pc' = "loop"
    /\ UNCHANGED << nodeVarsButPc, fn_in >>

PowNext == PowBegin \/ PowAttempt

PowSpec == PowInit /\ [][PowNext]_vars

\* ------------------------------------------- the node on a damaged chain
\* The node at the top of its loop, the genesis block stamped and logged,
\* when the chain's last block has lost its HARDCOVER_CRYPTION key: the
\* state the engine's check of its last block is specified for.
CorruptInit ==
    /\ now = Epoch + StartDelay
    /\ pc = "tick"
    /\ blockchain = << WithoutKey(stamp_new_block(<<>>, ENGINE_COMPLEXITY, "any", NoRewardType, 0, 0, <<"0">>, now), "HARDCOVER_CRYPTION") >>
    /\ current_complexity = INITIAL_COMPLEXITY
    /\ last_sdb_reward_time = now
    /\ last_btz_reward_time = now
    /\ current_time = 0
    /\ active_nodes = <<>>
    /\ sdb_last_reward_time = Epoch
    /\ btz_last_reward_time = Epoch
    /\ target_seed \in TargetSeeds
    /\ seed_timestamp = Epoch
    /\ stamped = << [cycle |-> "GENESIS", at |-> now, block |-> stamp_new_block(<<>>, ENGINE_COMPLEXITY, "any", NoRewardType, 0, 0, <<"0">>, now)] >>
    /\ json_log = _log_to_json(<<stamped[1].block>>)
    /\ csv_ledger = _log_to_csv(<<>>, stamped[1].block)
    /\ fn_in = Idle
    /\ fn_out = Idle
    /\ failed_ticks = 0
    /\ challenges = <<>>

\* The except clause after an exception raised by stamp_new_block: printed,
\* FAILURE_BACKOFF seconds slept, the loop goes on.
StampRaised ==
    /\ "raised" \in DOMAIN stamp_new_block_call(blockchain, current_complexity, "winner", NoRewardType, 0, 0, <<"0">>, now)
    /\ failed_ticks' = failed_ticks + 1
    /\ now' = now + FAILURE_BACKOFF
    /\ pc' = "tick"

\* Cycle A evaluated, a winner, and stamp_new_block raises: the logic has
\* reset its timer, the runner has assigned nothing.
SdbStampRaises ==
    /\ pc = "sdb"
    /\ SdbDue
    /\ \E data \in aggregate_all_node_traffic(_get_active_nodes, ProofHashes, AnyTotal) :
          SdbLogicResult(now, sdb_last_reward_time, _get_active_nodes, data, target_seed) # None
    /\ sdb_last_reward_time' = now
    /\ StampRaised
    /\ UNCHANGED << blockchain, current_complexity, last_sdb_reward_time,
                    last_btz_reward_time, current_time, active_nodes,
                    btz_last_reward_time, target_seed, seed_timestamp,
                    json_log, csv_ledger, stamped, fn_in, fn_out, challenges >>

\* Cycle B evaluated, a winner (its challenge created), and stamp_new_block
\* raises.
BtzStampRaises ==
    /\ pc = "btz"
    /\ BtzDue
    /\ \E data \in aggregate_all_node_traffic(_get_active_nodes, AnyProof, PacketTotals), reports \in bulk_verify_nodes(_get_active_nodes) :
          LET winner_data == BtzLogicResult(now, btz_last_reward_time, _get_active_nodes, data, reports)
          IN  /\ winner_data # None
              /\ challenges' = Append(challenges, ChallengeEntry(winner_data))
    /\ btz_last_reward_time' = now
    /\ StampRaised
    /\ UNCHANGED << blockchain, current_complexity, last_sdb_reward_time,
                    last_btz_reward_time, current_time, active_nodes,
                    sdb_last_reward_time, target_seed, seed_timestamp,
                    json_log, csv_ledger, stamped, fn_in, fn_out >>

\* The top of the loop, followed for one failed pass more than MaxFailures.
CorruptTick == failed_ticks <= MaxFailures /\ TickBegin

CorruptNext ==
    \/ CorruptTick
    \/ SdbNotDue
    \/ SdbNoWinner
    \/ SdbStampRaises
    \/ BtzNotDue
    \/ BtzNoWinner
    \/ BtzStampRaises
    \/ Sleep

CorruptSpec == CorruptInit /\ [][CorruptNext]_vars

\* --------------------------------------------- the node with a failing disk
\* How an export of log_block may end: the file written; an IOError raised
\* inside the export's try and printed; for the ledger also an OSError
\* raised by os.path.getsize, ahead of the try (the file gone since
\* os.path.exists saw it).
JsonOutcomes == {"written", "IOError"}

CsvOutcomes == {"written", "IOError", "getsize raised"}

\* _log_to_json, `outcome` being how the export ends.
_log_to_json_outcome(file, chain, outcome) ==
    IF outcome = "written" THEN _log_to_json(chain) ELSE file

\* _log_to_csv, likewise.
_log_to_csv_outcome(ledger, block, outcome) ==
    IF outcome = "written" THEN _log_to_csv(ledger, block) ELSE ledger

\* run_node up to the loop, the exports of log_block ending either way.
\* An exception log_block does not catch leaves _create_genesis_block and
\* run_node (the call stands before the loop's try): the process ends.
CreateGenesisLogged ==
    /\ pc = "start"
    /\ blockchain = <<>>
    /\ now' = now + StartDelay
    /\ \E json_outcome \in JsonOutcomes, csv_outcome \in CsvOutcomes :
          LET genesis_block == GenesisBlock(now')
          IN  /\ blockchain' = Append(blockchain, genesis_block)
              /\ stamped' = Append(stamped, [cycle |-> "GENESIS", at |-> now', block |-> genesis_block])
              /\ json_log' = _log_to_json_outcome(json_log, Append(blockchain, genesis_block), json_outcome)
              /\ csv_ledger' = _log_to_csv_outcome(csv_ledger, genesis_block, csv_outcome)
              /\ fn_out' = [json_outcome |-> json_outcome, csv_outcome |-> csv_outcome]
              /\ IF csv_outcome = "getsize raised"
                 THEN /\ pc' = "terminated"
                      /\ UNCHANGED << last_sdb_reward_time, last_btz_reward_time >>
                 ELSE /\ pc' = "tick"
                      /\ last_sdb_reward_time' = now'
                      /\ last_btz_reward_time' = now'
    /\ UNCHANGED << current_complexity, current_time, active_nodes,
                    sdb_last_reward_time, btz_last_reward_time, target_seed, seed_timestamp,
                    fn_in, failed_ticks, challenges >>

PersistNext ==
    \/ CreateGenesisLogged
    \/ TickBegin
    \/ SdbNotDue
    \/ SdbNoWinner
    \/ SdbWin
    \/ BtzNotDue
    \/ BtzNoWinner
    \/ BtzWin
    \/ Sleep

PersistSpec == Init /\ [][PersistNext]_vars

\* ------------------------------------ PingNmapVerifier, the node's report
\* _generate_proof_of_verification_work as a function of the raw data and
\* of the nonces at which the digest meets the target: the digest of the
\* first such nonce up to the cutoff, else the degraded token made of the
\* last digest tried.
_generate_proof_of_verification_work(raw_data, hits) ==
    LET met == { n \in hits : ~nonce_exceeded(n) }
    IN  IF met # {}
        THEN attempt_hash(raw_data, CHOOSE n \in met : \A m \in met : n <= m)
        ELSE <<"NonceExceeded-", attempt_hash(raw_data, NONCE_CUTOFF)>>

\* What _simulated_ping may return: no answer, or an answer with its
\* latencies (two samples of them).
PingReports ==
    { [status |-> "FAILED", raw_latency_data |-> ""],
      [status |-> "SUCCESS", raw_latency_data |-> "20.000,20.000,20.000,20.000"],
      [status |-> "SUCCESS", raw_latency_data |-> "21.500,80.250,33.000,149.999"] }

\* What _simulated_nmap_scan may return for `address`.
NmapReports(address) ==
    { [ service_status      |-> IF is_service_running THEN "RUNNING" ELSE "BLOCKED",
        verified_ports_hash |-> sha256_hash(<<address, "-", is_service_running>>) ] :
        is_service_running \in BOOLEAN }

\* Variant: a degraded proof withdraws the verification.
verify_node_integrity_ProofGated(node_address, ping_report, nmap_report, hits) ==
    LET is_verified == /\ ping_report.status = "SUCCESS"
                       /\ nmap_report.service_status = "RUNNING"
        proof_input == <<node_address, "-", ping_report.raw_latency_data, "-", nmap_report.verified_ports_hash, "-", is_verified>>
        verification_proof == _generate_proof_of_verification_work(proof_input, hits)
    IN  [ address                 |-> node_address,
          is_verified             |-> is_verified /\ verification_proof[1] # "NonceExceeded-",
          ping_results            |-> ping_report,
          nmap_results            |-> nmap_report,
          verification_hash_proof |-> verification_proof,
          difficulty_target       |-> "000" ]

\* verify_node_integrity, `hits` being the nonces at which the digest of
\* the proof input meets the target.
verify_node_integrity(node_address, ping_report, nmap_report, hits) ==
    LET is_verified == /\ ping_report.status = "SUCCESS"
                       /\ nmap_report.service_status = "RUNNING"
        proof_input == <<node_address, "-", ping_report.raw_latency_data, "-", nmap_report.verified_ports_hash, "-", is_verified>>
        verification_proof == _generate_proof_of_verification_work(proof_input, hits)
    IN  [ address                 |-> node_address,
          is_verified             |-> is_verified,
          ping_results            |-> ping_report,
          nmap_results            |-> nmap_report,
          verification_hash_proof |-> verification_proof,
          difficulty_target       |-> "000" ]

\* Where the proof-of-work search may meet its target: at once, after some
\* attempts, at its last attempt, beyond the cutoff only, nowhere.
ProofHits == { {0}, {1, 5}, {NONCE_CUTOFF}, {NONCE_CUTOFF + 1}, {} }

\* The inputs of verify_node_integrity for `address`: what the ping and
\* the scan return, and where the search meets its target.
VerifyInputsFor(address) ==
    { [ node_address |-> address, ping_report |-> ping_report, nmap_report |-> nmap_report, hits |-> hits ] :
        ping_report \in PingReports, nmap_report \in NmapReports(address), hits \in ProofHits }

VerifyInputs ==
    UNION { VerifyInputsFor(ManagerNodes[a]) : a \in 1..Min(MaxNodes + 1, Len(ManagerNodes)) }

VerifyInit ==
    /\ fn_in \in VerifyInputs
    /\ CallInit(<<>>)

\* One call of verify_node_integrity.
VerifyNodeIntegrity ==
    /\ pc = "call"
    /\ fn_out' = verify_node_integrity(fn_in.node_address, fn_in.ping_report, fn_in.nmap_report, fn_in.hits)
    /\ pc' = "returned"
    /\ UNCHANGED << nodeVarsButPc, fn_in >>

VerifyNext == VerifyNodeIntegrity

VerifySpec == VerifyInit /\ [][VerifyNext]_vars

\* ================================================================ claims
Last(seq) == seq[Len(seq)]

IsPrefix(s, t) == Len(s) <= Len(t) /\ SubSeq(t, 1, Len(s)) = s

\* The chain the ledger has produced: every block stamped, in stamp order.
\* (The runner's list holds the genesis block alone: see C2.)
LedgerChain == [i \in 1..Len(stamped) |-> stamped[i].block]

C2_WinnerAppendsBlock ==
    [][ (pc \in {"sdb", "btz"} /\ Len(stamped') = Len(stamped) + 1)
          => /\ Len(blockchain') = Len(blockchain) + 1
             /\ Last(blockchain') = Last(stamped').block ]_vars

\* C3: when both cycles win in one tick, the second block's previous_hash is
\* the first block's integrity_hash and its index the first's plus one.
C3_SameTickStampsChained ==
    \A i \in 2..Len(stamped) :
        ( /\ stamped[i - 1].cycle = "SDB"
          /\ stamped[i].cycle = "BTZ"
          /\ stamped[i - 1].at = stamped[i].at )
        => /\ stamped[i].block.PREVIOUS_HASH = stamped[i - 1].block.HARDCOVER_CRYPTION
           /\ stamped[i].block.BLOCK_INDEX = stamped[i - 1].block.BLOCK_INDEX + 1

\* C4: the chain is append-only: every step leaves the chain it found as a
\* prefix of the chain it leaves.
C4_AppendOnly == [][IsPrefix(blockchain, blockchain')]_vars

\* C4, witness: the genesis block is in the chain and winners have been
\* stamped and timers reset since.
C4_Witness ==
    /\ Len(blockchain) >= 1
    /\ Len(stamped) >= 3
    /\ pc = "tick"

\* C5: the first block of a non-empty chain has index 0 and the 64-zero
\* previous_hash.
C5_GenesisIndexZero ==
    blockchain # <<>> =>
        /\ blockchain[1].BLOCK_INDEX = 0
        /\ blockchain[1].PREVIOUS_HASH = placeholder_hash

\* The string of 64 zero characters.
IsZeroHash(h) == Len(h) = 64 /\ \A i \in 1..Len(h) : h[i] = "0"

\* C6: a stamp on the empty chain (the genesis stamp is the one there is)
\* starts from a predecessor of index 0 and returns a block of index 1 whose
\* previous_hash is 64 zero characters.
C6_StampOnEmptyChain ==
    Len(stamped) >= 1 =>
        /\ stamped[1].cycle = "GENESIS"
        /\ stamped[1].block.BLOCK_INDEX = 1
        /\ IsZeroHash(stamped[1].block.PREVIOUS_HASH)

C6_Witness == Len(stamped) >= 1 /\ blockchain = <<stamped[1].block>>

\* C7: of two consecutively stamped blocks the later records the earlier's
\* difficulty plus one increment.
C7_DifficultyStep ==
    \A i \in 2..Len(stamped) :
        stamped[i].block.COMPLEXITY_LEVEL =
            stamped[i - 1].block.COMPLEXITY_LEVEL + COMPLEXITY_GROWTH_INCREMENT

\* The entries before entry i that set the timer of cycle `c`: the genesis
\* stamp and the stamps of c.
TimerSetters(c, i) == {j \in 1..(i - 1) : stamped[j].cycle \in {"GENESIS", c}}

\* The scheduler's clock reading at the last stamp that set c's timer.
LastFire(c) ==
    LET S == TimerSetters(c, Len(stamped) + 1)
    IN  stamped[CHOOSE j \in S : \A k \in S : k <= j].at

\* C8: Cycle A's timer is set at genesis creation and at each Cycle A win,
\* and every SeedMatch stamp comes at least 30 minutes (1800 s) after the
\* genesis stamp and after every earlier SeedMatch stamp.
C8_CycleAInterval ==
    /\ pc # "start" => last_sdb_reward_time = LastFire("SDB")
    /\ \A i \in 1..Len(stamped) :
          stamped[i].cycle = "SDB" =>
             \A j \in TimerSetters("SDB", i) : stamped[i].at - stamped[j].at >= 1800

C8_Witness ==
    \E i, j \in 1..Len(stamped) :
        i < j /\ stamped[i].cycle = "SDB" /\ stamped[j].cycle = "SDB"

\* C9: Cycle B's timer is reset to the tick's time at each Cycle B win, and
\* every TrafficVolume stamp comes at least 5 minutes (300 s) after the
\* genesis stamp and after every earlier TrafficVolume stamp.
C9_CycleBInterval ==
    /\ pc # "start" => last_btz_reward_time = LastFire("BTZ")
    /\ \A i \in 1..Len(stamped) :
          stamped[i].cycle = "BTZ" =>
             \A j \in TimerSetters("BTZ", i) : stamped[i].at - stamped[j].at >= 300

C9_Witness ==
    \E i, j \in 1..Len(stamped) :
        i < j /\ stamped[i].cycle = "BTZ" /\ stamped[j].cycle = "BTZ"

\* Whether entry i of the scanned data matches: its proof hash and the
\* target agree on their first five characters.
Matches(in, i) ==
    \A k \in 1..5 :
        in.eligible_nodes_data[i].data_proof_hash[k] = in.target_seed[k]

\* C10: the evaluation returns the first entry, in scan order, whose proof
\* hash starts with the target's 5-character prefix, and no winner when
\* none does.
C10_FirstMatchWins ==
    pc = "returned" =>
        LET n == Len(fn_in.eligible_nodes_data)
            M == {i \in 1..n : Matches(fn_in, i)}
        IN  IF M = {} THEN fn_out = None
            ELSE \E i \in M :
                    /\ \A j \in M : i <= j
                    /\ fn_out = fn_in.eligible_nodes_data[i]

\* C10, witness: exactly one entry matches, and it is not the first scanned.
C10_Witness ==
    /\ pc = "returned"
    /\ \E i \in 2..Len(fn_in.eligible_nodes_data) :
          /\ Matches(fn_in, i)
          /\ \A j \in 1..Len(fn_in.eligible_nodes_data) : j # i => ~Matches(fn_in, j)
          /\ fn_out = fn_in.eligible_nodes_data[i]

\* C11: a tick in which Cycle A produced a winner leaves a newly generated
\* SeedFrame: the frame after the winner's step is not the frame before it.
C11_WinRegeneratesSeedFrame ==
    [][ (pc = "sdb" /\ Len(stamped') = Len(stamped) + 1)
          => <<seed_timestamp', target_seed'>> # <<seed_timestamp, target_seed>> ]_vars

\* The participants of the evaluation in fn_in with a report of their own
\* that says verified.
VerifiedParticipants ==
    { i \in 1..Len(fn_in.data) :
        \E r \in 1..Len(fn_in.reports) :
            /\ fn_in.reports[r].address = fn_in.data[i].node_address
            /\ fn_in.reports[r].is_verified }

\* C12: the winner Cycle B returns is a participant whose report of that
\* evaluation says verified, whatever the packet totals.
C12_WinnerIsVerified ==
    (pc = "returned" /\ fn_out # None) =>
        \E i \in VerifiedParticipants :
            fn_in.data[i].node_address = fn_out.winner_address

\* C12, witness: a winner is returned although a participant that is not
\* verified has a higher packet total.
C12_Witness ==
    /\ pc = "returned"
    /\ fn_out # None
    /\ \E i \in 1..Len(fn_in.data) :
          /\ i \notin VerifiedParticipants
          /\ fn_in.data[i].total_packet_count > fn_out.binary_transit_no

\* C13: an evaluation with a verified participant returns a winner, one of
\* the verified participants, whose packet total is at least that of every
\* verified participant.
C13_WinnerHasHighestTotal ==
    ( /\ pc = "returned"
      /\ fn_in.time_now - fn_in.last_reward_time >= 300
      /\ VerifiedParticipants # {} ) =>
        /\ fn_out # None
        /\ \E i \in VerifiedParticipants :
              /\ fn_out.winner_address = fn_in.data[i].node_address
              /\ fn_out.binary_transit_no = fn_in.data[i].total_packet_count
        /\ \A j \in VerifiedParticipants :
              fn_out.binary_transit_no >= fn_in.data[j].total_packet_count

\* C13, witness: three verified participants with totals 200, 5000 and
\* 4999 in that order, and the one with 5000 wins.
C13_Witness ==
    /\ pc = "returned"
    /\ Len(fn_in.data) = 3
    /\ VerifiedParticipants = {1, 2, 3}
    /\ fn_in.data[1].total_packet_count = 200
    /\ fn_in.data[2].total_packet_count = 5000
    /\ fn_in.data[3].total_packet_count = 4999
    /\ fn_out # None
    /\ fn_out.winner_address = fn_in.data[2].node_address

C15_ChallengeLeavesPending ==
    \A i \in 1..Len(challenges) :
        now > challenges[i].challenge.expiry_timestamp
            => challenges[i].challenge.reward_status # "PENDING_ACCEPTANCE"

C17_NoStampForExpired ==
    \A i \in 1..Len(stamped) :
        stamped[i].cycle = "BTZ" =>
            \E k \in 1..Len(challenges) :
                /\ challenges[k].challenge.challenge_id = stamped[i].block.SEEDFRAME
                /\ challenges[k].winner_address = stamped[i].block.WINNERS_ADDRESSES
                /\ challenges[k].challenge.reward_status # "EXPIRED"
                /\ stamped[i].at < challenges[k].challenge.expiry_timestamp

\* C17, witness: the clock has passed the expiry of a challenge whose
\* block was stamped.
C17_Witness ==
    \E i \in 1..Len(stamped), k \in 1..Len(challenges) :
        /\ stamped[i].cycle = "BTZ"
        /\ challenges[k].challenge.challenge_id = stamped[i].block.SEEDFRAME
        /\ now > challenges[k].challenge.expiry_timestamp

\* C18: a failure while Cycle A is evaluated, in a tick in which Cycle B's
\* interval has elapsed too, leaves the tick at Cycle B's timer check.
C18_FailureSparesOtherCycle ==
    [][ (pc = "sdb" /\ SdbDue /\ BtzDue /\ failed_ticks' = failed_ticks + 1)
          => (pc' = "btz" /\ now' = now) ]_vars

\* Some participant of `data` has a report in `reports` that says verified.
HasVerified(data, reports) ==
    \E i \in 1..Len(data), r \in 1..Len(reports) :
        reports[r].address = data[i].node_address /\ reports[r].is_verified

\* Some participant of `data` has a proof hash with the target's prefix.
HasMatch(data) ==
    \E i \in 1..Len(data) :
        \A k \in 1..5 : data[i].data_proof_hash[k] = target_seed[k]

LoopFollowed == now <= Epoch + MaxTime /\ Len(stamped) < MaxStamps

\* C20: a failed pass does not end the loop: it waits the backoff of 10
\* seconds at the top of the loop, and a further tick is then executed.
C20_LoopSurvivesFailure ==
    /\ [][ failed_ticks' = failed_ticks + 1 => (pc' = "tick" /\ now' = now + 10) ]_vars
    /\ [] ( (failed_ticks > 0 /\ pc = "tick" /\ LoopFollowed) => <>(pc = "sdb" /\ current_time = now) )

\* C20, witness: a tick is under way after a failed pass.
C20_Witness ==
    /\ failed_ticks > 0
    /\ pc = "sdb"
    /\ current_time = now

\* ------------------------------------------------------------------ C21
HexChars == {"0", "1", "2", "3", "4", "5", "6", "7", "8", "9", "a", "b", "c", "d", "e", "f"}

\* A 64-character hexadecimal digest: what sha256_hash returns, or 64
\* hexadecimal characters.
IsHexDigest(h) ==
    \/ (Len(h) = 2 /\ h[1] = "sha256")
    \/ (Len(h) = PLACEHOLDER_LENGTH /\ \A i \in 1..Len(h) : h[i] \in HexChars)

HasWellFormedHash(block) ==
    /\ "HARDCOVER_CRYPTION" \in DOMAIN block
    /\ IsHexDigest(block.HARDCOVER_CRYPTION)

\* C21: a call of stamp_new_block on a chain whose last block's integrity
\* hash is absent or malformed fails: it raises, returns no block, and the
\* chain is as before.
C21_CorruptLastBlockRefused ==
    ( /\ pc = "returned"
      /\ fn_in.chain # <<>>
      /\ ~HasWellFormedHash(Last(fn_in.chain)) )
    => /\ "raised" \in DOMAIN fn_out
       /\ blockchain = fn_in.chain

C23_StampIsPersisted ==
    [][ Len(stamped') = Len(stamped) + 1
          => /\ json_log' = _log_to_json(blockchain')
             /\ csv_ledger' = _log_to_csv(csv_ledger, Last(stamped').block) ]_vars

\* ------------------------------------------------------------------ C24
\* An export of the genesis block's log_block has failed.
ExportFailed ==
    /\ Len(stamped) >= 1
    /\ "json_outcome" \in DOMAIN fn_out
    /\ (fn_out.json_outcome # "written" \/ fn_out.csv_outcome # "written")

\* C24: after a failed export the node has not terminated, and the block
\* just stamped is in the chain.
C24_ExportFailureHarmless ==
    ExportFailed => (pc # "terminated" /\ blockchain # <<>> /\ blockchain[1] = stamped[1].block)

\* ------------------------------------------------------------------ C25
\* The calls with the arguments of the call made, at any time and in any
\* state of the generator.
SameLockArguments ==
    { o \in LockInputs : /\ o.hard_hash = fn_in.hard_hash
                         /\ o.complexity = fn_in.complexity
                         /\ o.reward_type = fn_in.reward_type }

OtherFields(b) == WithoutKey(WithoutKey(b, "HARDCOVER_CRYPTION"), "CONSTELLATION_SECURITY")

\* The blocks stamp_new_block returns on the inputs explored.
StampedBlocks ==
    { stamp_new_block_call(o.chain, o.complexity, o.miner_address, o.reward_type, o.reward_amount, o.binary_transit_no, o.seedframe, o.timestamp_s).returned :
        o \in { i \in StampInputs : i.chain = <<>> \/ "HARDCOVER_CRYPTION" \in DOMAIN Last(i.chain) } }

\* The fields in which two blocks differ.
DifferIn(b1, b2) == { k \in DOMAIN OtherFields(b1) : b1[k] # b2[k] }

\* C26: the integrity hash of a stamped block is the digest of the block's
\* other fields as the block carries them (the two digests left out), and
\* two stamped blocks have the same integrity hash exactly when they agree
\* in every one of those fields.
C26_HashCoversAllFields ==
    (pc = "returned" /\ "returned" \in DOMAIN fn_out)
    => LET b == fn_out.returned
       IN  /\ b.HARDCOVER_CRYPTION = sha256_hash(json_dumps(b))
           /\ \A b2 \in StampedBlocks :
                 (b2.HARDCOVER_CRYPTION = b.HARDCOVER_CRYPTION) <=> (OtherFields(b2) = OtherFields(b))

\* C26, witness: a block has been stamped that differs from another
\* stamped block in its reward amount alone.
C26_Witness ==
    /\ pc = "returned"
    /\ "returned" \in DOMAIN fn_out
    /\ \E b2 \in StampedBlocks : DifferIn(fn_out.returned, b2) = {"REWARD_AMOUNT"}

\* ------------------------------------------------------------------ C27
\* C27: the search makes at most NONCE_CUTOFF + 1 attempts: while it runs
\* it has made at most NONCE_CUTOFF and can make the next, and it returns
\* either a digest of an attempt that meets the target or the
\* 'NonceExceeded' token, the latter only when no attempt met the target.
C27_SearchIsBounded ==
    /\ pc = "loop" => (fn_out.attempts <= NONCE_CUTOFF /\ ENABLED PowAttempt)
    /\ pc = "returned"
         => /\ fn_out.attempts <= NONCE_CUTOFF + 1
            /\ \/ \E n \in fn_in.hits : fn_out.returned = attempt_hash(fn_in.raw_data, n)
               \/ /\ fn_out.returned[1] = "NonceExceeded-"
                  /\ fn_in.hits \cap (0..NONCE_CUTOFF) = {}

\* C27, witness: the search has returned the degraded token after its
\* last permitted attempt.
C27_Witness ==
    /\ pc = "returned"
    /\ fn_out.attempts = NONCE_CUTOFF + 1
    /\ fn_out.returned[1] = "NonceExceeded-"

\* C28: the acceptance signature generated for a registered address, a
\* challenge id and a private key is accepted by verify_address_signature
\* against the payload 'ACCEPTANCE-<challenge id>-<address>'.
C28_SignThenVerify ==
    pc = "returned" => fn_out.verification_status

SdbMatchStep == Len(stamped') = Len(stamped) + 1 /\ Last(stamped').cycle = "SDB"

\* The step is a Cycle A evaluation that ended without match.
SdbNoMatchStep == pc = "sdb" /\ SdbDue /\ pc' = "btz" /\ ~SdbMatchStep

\* C30: a Cycle A evaluation without match leaves Cycle A's timers (the
\* logic's and, in the loop, the runner's), the chain, the stamped blocks
\* and the difficulty as they were; a timer changes only in a step in
\* which a match is found, where it is set to the current time.
C30_TimerMovesOnlyOnMatch ==
    [][ /\ SdbNoMatchStep
            => UNCHANGED << sdb_last_reward_time, last_sdb_reward_time, blockchain, stamped, current_complexity >>
        /\ sdb_last_reward_time' # sdb_last_reward_time
            => (SdbMatchStep /\ sdb_last_reward_time' = now)
        /\ (pc # "start" /\ last_sdb_reward_time' # last_sdb_reward_time)
            => (SdbMatchStep /\ last_sdb_reward_time' = current_time) ]_vars

\* C30, witness: a match has been found and stamped, and a later Cycle A
\* evaluation has just ended without match (the cycle is still due).
C30_Witness ==
    /\ pc = "btz"
    /\ SdbDue
    /\ \E i \in 1..Len(stamped) : stamped[i].cycle = "SDB"

\* ------------------------------------------------------------------ C31
\* The logic's own time gate lets the evaluation through.
SdbGateOpen == now - sdb_last_reward_time >= SDB_CYCLE_TIME_SECONDS

BtzSelectStep == Len(challenges') = Len(challenges) + 1

\* The step is a Cycle B evaluation that ended without winner.
BtzNoWinnerStep == pc = "btz" /\ BtzDue /\ pc' = "sleep" /\ ~BtzSelectStep

\* C32: an evaluation of Cycle B in which no participant is verified
\* returns no winner; a Cycle B evaluation without winner creates no
\* challenge, stamps nothing and leaves Cycle B's timers (the logic's and
\* the runner's), the chain and the difficulty as they were; and Cycle B's
\* interval, once elapsed, stays elapsed until a winner is selected, so
\* that the next tick evaluates it again.
C32_NoVerifiedNoWinner ==
    /\ [] ( (pc = "btz" /\ BtzDue) =>
              \A data \in aggregate_all_node_traffic(_get_active_nodes, AnyProof, PacketTotals),
                 reports \in bulk_verify_nodes(_get_active_nodes) :
                  ~HasVerified(data, reports) =>
                      BtzLogicResult(now, btz_last_reward_time, _get_active_nodes, data, reports) = None )
    /\ [][ /\ BtzNoWinnerStep
                => UNCHANGED << challenges, stamped, blockchain, current_complexity, btz_last_reward_time, last_btz_reward_time >>
           /\ (pc # "start" /\ BtzDue /\ ~BtzSelectStep) => BtzDue' ]_vars
    /\ [] ( (pc = "btz" /\ BtzDue) => ~ENABLED BtzNotDue )

\* C32, witness: Cycle B is evaluated again in the tick after one in which
\* it was due and ended without winner.
C32_Witness ==
    /\ pc = "btz"
    /\ current_time - last_btz_reward_time >= BTZ_REWARD_CYCLE + BTZ_REWARD_CYCLE + FAILURE_BACKOFF

\* ------------------------------------------------------------------ C33
\* The verified participants of the evaluation whose packet total no
\* verified participant exceeds.
TopVerified ==
    { i \in VerifiedParticipants :
        \A j \in VerifiedParticipants :
            fn_in.data[i].total_packet_count >= fn_in.data[j].total_packet_count }

\* C33: the winner Cycle B returns is, of the verified participants with
\* the highest packet total, the one that comes first in the roster (the
\* traffic data, and with it the join, follow the roster's order).
C33_TieGoesToFirstJoined ==
    (pc = "returned" /\ fn_out # None) =>
        /\ \A i \in 1..Len(fn_in.data) : fn_in.data[i].node_address = fn_in.all_active_nodes[i]
        /\ \E i \in TopVerified :
              /\ \A j \in TopVerified : i <= j
              /\ fn_out.winner_address = fn_in.all_active_nodes[i]

\* C33, witness: three verified participants with totals 200, 5000 and
\* 5000 in roster order, and the second of the roster wins.
C33_Witness ==
    /\ pc = "returned"
    /\ Len(fn_in.data) = 3
    /\ VerifiedParticipants = {1, 2, 3}
    /\ fn_in.data[1].total_packet_count = 200
    /\ fn_in.data[2].total_packet_count = 5000
    /\ fn_in.data[3].total_packet_count = 5000
    /\ fn_out # None
    /\ fn_out.winner_address = fn_in.all_active_nodes[2]

\* ------------------------------------------------------------------ C34
\* C34: every step that stamps a block (genesis, Cycle A, Cycle B) records
\* in it the scheduler's difficulty as the step finds it, before the
\* step's increment, and signs the lock with that same difficulty.
C34_BlockCarriesCurrentDifficulty ==
    [][ Len(stamped') = Len(stamped) + 1
          => LET b == Last(stamped').block
             IN  /\ b.COMPLEXITY_LEVEL = current_complexity
                 /\ b.CONSTELLATION_SECURITY =
                        constellation_lock_key(b.HARDCOVER_CRYPTION, current_complexity, b.REWARD_CHAIN, b.TIMESTAMP * 1000) ]_vars

\* ------------------------------------------------------------------ C35
\* The addresses of the roster the consensus mechanisms evaluate.
EvaluatedAddresses == { _get_active_nodes[i] : i \in 1..Len(_get_active_nodes) }

\* C35: a block stamped for a Cycle A winner names a participant of the
\* roster, the kind @SNIFFEE-DEBUGEE, the amount of the winner record and
\* the SeedFrame's target; a block stamped for a Cycle B winner names the
\* participant its challenge was created for, the kind BTZCY-SYSTEM, the
\* amount of the winner record and the challenge's id.
C35_BlockCarriesWinnerRecord ==
    \A i \in 1..Len(stamped) :
        LET b == stamped[i].block
        IN  /\ stamped[i].cycle = "SDB" =>
                  /\ b.WINNERS_ADDRESSES \in EvaluatedAddresses
                  /\ b.REWARD_CHAIN = "@SNIFFEE-DEBUGEE"
                  /\ b.REWARD_AMOUNT = SDB_REWARD
                  /\ b.SEEDFRAME = target_seed
            /\ stamped[i].cycle = "BTZ" =>
                  /\ b.REWARD_CHAIN = "BTZCY-SYSTEM"
                  /\ b.REWARD_AMOUNT = BTZ_REWARD
                  /\ \E k \in 1..Len(challenges) :
                        /\ challenges[k].created_at = stamped[i].at
                        /\ challenges[k].winner_address = b.WINNERS_ADDRESSES
                        /\ challenges[k].challenge.challenge_id = b.SEEDFRAME

\* ------------------------------------------------------------------ C36
\* The roster a consensus mechanism evaluates, whole: run_sdb_consensus
\* and run_btz_consensus of the manager take it from _get_active_nodes.
EvaluatedRoster == ManagerNodes

\* C36: while a tick evaluates its cycles, the roster the consensus
\* mechanisms evaluate is the roster the scheduler read at the top of the
\* tick: the same addresses in the same order.
C36_EvaluatedRosterIsRefreshed ==
    pc \in {"sdb", "btz"} => EvaluatedRoster = active_nodes

\* ------------------------------------------------------------------ C37
\* C37: between ticks the scheduler's difficulty is the initial difficulty
\* plus one increment for each reward block in the chain, the chain being
\* the genesis block and the reward blocks.
C37_DifficultyCountsRewardBlocks ==
    pc \in {"tick", "sleep"} =>
        /\ blockchain # <<>>
        /\ current_complexity =
              INITIAL_COMPLEXITY + COMPLEXITY_GROWTH_INCREMENT * (Len(blockchain) - 1)

\* ------------------------------------------------------------------ C38
\* The calls for the same address with the same ping and scan results,
\* wherever the search meets its target.
SameChecks ==
    { o \in VerifyInputs : /\ o.node_address = fn_in.node_address
                           /\ o.ping_report = fn_in.ping_report
                           /\ o.nmap_report = fn_in.nmap_report }

\* C38: the report says verified exactly when the ping succeeded and the
\* scan found the service running, and says the same wherever the
\* proof-of-work search meets its target or whether it ends in the
\* degraded token.
C38_VerifiedIsPingAndService ==
    pc = "returned" =>
        /\ fn_out.is_verified <=>
              (fn_in.ping_report.status = "SUCCESS" /\ fn_in.nmap_report.service_status = "RUNNING")
        /\ \A o \in SameChecks :
              verify_node_integrity(o.node_address, o.ping_report, o.nmap_report, o.hits).is_verified = fn_out.is_verified

\* C38, witness: a report says verified and carries the degraded token of
\* a search cut off.
C38_Witness ==
    /\ pc = "returned"
    /\ fn_out.is_verified
    /\ fn_out.verification_hash_proof[1] = "NonceExceeded-"
    /\ \E o \in SameChecks : o.hits = {0}
====
